---- MODULE Spec2Model ----
(***************************************************************************)
(* Model of the axfs-ng VFS over the FAT adapter: the on-disk directory    *)
(* tree, the FAT directory-node operations (fs/fat/dir.rs) and the         *)
(* std::fs-like FsContext built on them (highlevel/fs.rs).                 *)
(*                                                                         *)
(* The tree is a table of nodes indexed by node id.  A name is a sequence  *)
(* of ASCII codes, so that lower-casing and case-insensitive comparison    *)
(* are computed and not assumed.  A path is a sequence of components.      *)
(***************************************************************************)
EXTENDS Integers, Sequences, FiniteSets, TLC

VARIABLES nodes, current_dir, last, created, iter, seen, fd_table, sys, clones, ctx_last,
          code, lifted, threads, owner, disk, shared, sh_last, inodes, reported,
          mounts, mv_last

vars == <<nodes, current_dir, last, created, iter, seen, fd_table, sys, clones,
          ctx_last, code, lifted, threads, owner, disk, shared, sh_last, inodes,
          reported, mounts, mv_last>>

\* the variables of the directory tree and its FsContext
fs_vars == <<nodes, current_dir, last, created>>

\* the variables of a ReadDir and of what it returned
read_dir_vars == <<iter, seen>>

\* the variables of the POSIX shim: the FD table and the last syscall
shim_vars == <<fd_table, sys>>

\* the FsContexts made from FS_CONTEXT, and the last call on an FsContext
ctx_vars == <<clones, ctx_last>>

\* an error code of the ext4 codec and the VFS error it is lifted to
err_vars == <<code, lifted>>

\* the threads in a syscall, the owner of each mutex, and the blocks of
\* the volume
lock_vars == <<threads, owner, disk>>

\* a region of shared pages with its owners, and the last call on it
shared_vars == <<shared, sh_last>>

\* the inode allocator of a FAT mount with its nodes, and the inode the
\* last call of metadata reported
inode_vars == <<inodes, reported>>

\* the root directories of several mounts, and the last rename between them
mount_vars == <<mounts, mv_last>>

\* the variables of the other parts of the program
outside_fs == <<read_dir_vars, shim_vars, ctx_vars, err_vars, lock_vars, shared_vars,
      inode_vars, mount_vars>>

outside_read_dir == <<fs_vars, shim_vars, ctx_vars, err_vars, lock_vars, shared_vars,
      inode_vars, mount_vars>>

outside_shim == <<last, created, read_dir_vars, ctx_vars, err_vars, lock_vars,
      shared_vars, inode_vars, mount_vars>>

outside_ctx == <<nodes, last, created, read_dir_vars, shim_vars, err_vars, lock_vars,
      shared_vars, inode_vars, mount_vars>>

outside_err == <<fs_vars, read_dir_vars, shim_vars, ctx_vars, lock_vars, shared_vars,
      inode_vars, mount_vars>>

outside_shared ==
    <<fs_vars, read_dir_vars, shim_vars, ctx_vars, err_vars, lock_vars, inode_vars,
      mount_vars>>

outside_inodes ==
    <<fs_vars, read_dir_vars, shim_vars, ctx_vars, err_vars, lock_vars, shared_vars,
      mount_vars>>

outside_mounts ==
    <<fs_vars, read_dir_vars, shim_vars, ctx_vars, err_vars, lock_vars, shared_vars,
      inode_vars>>

outside_locks == <<fs_vars, read_dir_vars, shim_vars, ctx_vars, err_vars, shared_vars,
      inode_vars, mount_vars>>

-----------------------------------------------------------------------------
(* Bounds of the model *)

MaxNodes == 3

MaxPathLen == 2

MaxDataLen == 1

MaxByte == 1

-----------------------------------------------------------------------------
(* Names, node types, paths *)

RootNode == 1

NoNode == 0

NodeIds == 1..MaxNodes

\* "a", "A", "b"
Names == {<<97>>, <<65>>, <<98>>}

NoName == <<>>

NodeTypes == {"RegularFile", "Directory", "Symlink"}

to_ascii_lowercase(s) ==
    [i \in DOMAIN s |-> IF s[i] \in 65..90 THEN s[i] + 32 ELSE s[i]]

\* fatfs DirEntry::eq_name: names are compared without regard to case
eq_name(stored, name) == to_ascii_lowercase(stored) = to_ascii_lowercase(name)

Normal(n) == [c |-> "Normal", n |-> n]

Special(c) == [c |-> c, n |-> NoName]

Components ==
    {Special("RootDir"), Special("CurDir"), Special("ParentDir")}
        \cup {Normal(n) : n \in Names}

\* RootDir occurs only as the first component of a path
Paths ==
    {p \in UNION {[1..k -> Components] : k \in 1..MaxPathLen} :
        \A i \in 2..Len(p) : p[i].c # "RootDir"}

\* Path::file_name: the last component when it is a Normal one
file_name(path) ==
    IF Len(path) > 0 /\ path[Len(path)].c = "Normal"
    THEN path[Len(path)].n
    ELSE NoName

Contents ==
    UNION {[1..k -> 1..MaxByte] : k \in 0..MaxDataLen}

-----------------------------------------------------------------------------
(* The on-disk tree *)

FreeNode == [kind |-> "none", parent |-> NoNode, name |-> NoName, data |-> <<>>]

RootRec == [kind |-> "dir", parent |-> NoNode, name |-> NoName, data |-> <<>>]

EmptyTree == [n \in NodeIds |-> IF n = RootNode THEN RootRec ELSE FreeNode]

Children(t, d) == {n \in NodeIds : t[n].kind # "none" /\ t[n].parent = d}

FreeIds(t) == {n \in NodeIds : t[n].kind = "none" /\ n # RootNode}

Min(S) == CHOOSE x \in S : \A y \in S : x <= y

\* the entry of directory d whose name matches, or NoNode
ff_find(t, d, name) ==
    LET m == {n \in Children(t, d) : eq_name(t[n].name, name)}
    IN  IF m = {} THEN NoNode ELSE CHOOSE n \in m : TRUE

\* fatfs Dir::create_file / Dir::create_dir
ff_create(t, d, name, kind) ==
    IF ff_find(t, d, name) # NoNode THEN [err |-> "AlreadyExists", t |-> t, node |-> NoNode]
    ELSE IF FreeIds(t) = {} THEN [err |-> "NotEnoughSpace", t |-> t, node |-> NoNode]
    ELSE LET n == Min(FreeIds(t))
         IN  [err |-> "Ok",
              t |-> [t EXCEPT ![n] = [kind |-> kind, parent |-> d, name |-> name, data |-> <<>>]],
              node |-> n]

\* fatfs Dir::remove
ff_remove(t, d, name) ==
    LET removed(n) ==
            IF n = NoNode THEN [err |-> "NotFound", t |-> t]
            ELSE IF t[n].kind = "dir" /\ Children(t, n) # {}
                 THEN [err |-> "DirectoryIsNotEmpty", t |-> t]
            ELSE [err |-> "Ok", t |-> [t EXCEPT ![n] = FreeNode]]
    IN  removed(ff_find(t, d, name))

\* fatfs Dir::rename
ff_rename(t, d, src_name, dst_dir, dst_name) ==
    LET renamed(n, present) ==
            IF n = NoNode THEN [err |-> "NotFound", t |-> t]
            ELSE IF present THEN [err |-> "AlreadyExists", t |-> t]
            ELSE [err |-> "Ok", t |-> [t EXCEPT ![n].parent = dst_dir, ![n].name = dst_name]]
    IN  renamed(ff_find(t, d, src_name),
                \E n \in Children(t, dst_dir) : eq_name(t[n].name, dst_name))

-----------------------------------------------------------------------------
(* fs/fat/util.rs *)

into_vfs_err(err) ==
    CASE err = "AlreadyExists" -> "AlreadyExists"
      [] err = "CorruptedFileSystem" -> "InvalidData"
      [] err = "DirectoryIsNotEmpty" -> "DirectoryNotEmpty"
      [] err = "InvalidFileNameLength" -> "InvalidData"
      [] err = "InvalidInput" -> "InvalidData"
      [] err = "UnsupportedFileNameCharacter" -> "InvalidData"
      [] err = "NotEnoughSpace" -> "StorageFull"
      [] err = "NotFound" -> "NotFound"
      [] OTHER -> "Io"

\* the POSIX error the shim returns for a VFS error
errno(err) ==
    CASE err = "NotFound" -> "ENOENT"
      [] err = "AlreadyExists" -> "EEXIST"
      [] err = "IsADirectory" -> "EISDIR"
      [] err = "NotADirectory" -> "ENOTDIR"
      [] err = "DirectoryNotEmpty" -> "ENOTEMPTY"
      [] err \in {"InvalidInput", "InvalidData"} -> "EINVAL"
      [] err = "PermissionDenied" -> "EACCES"
      [] err = "StorageFull" -> "ENOSPC"
      [] err = "Unsupported" -> "ENOSYS"
      [] err = "ResourceBusy" -> "EBUSY"
      [] err = "BadAddress" -> "EFAULT"
      [] err = "WouldBlock" -> "EAGAIN"
      [] OTHER -> "EIO"

-----------------------------------------------------------------------------
(* Directory entries (axfs_ng_vfs DirEntry / Reference): the node, the     *)
(* directory it was found in, and the name it was found under.             *)

Entry(node, parent, name) == [node |-> node, parent |-> parent, name |-> name]

NoEntry == Entry(NoNode, NoNode, NoName)

RootEntry == Entry(RootNode, NoNode, NoName)

\* DirEntry::as_dir
as_dir(t, e) == IF t[e.node].kind = "dir" THEN "Ok" ELSE "NotADirectory"

\* DirEntry::parent: the entry of the directory this entry was found in
entry_parent(t, e) ==
    IF e.parent = NoNode THEN NoEntry
    ELSE Entry(e.parent, t[e.parent].parent, to_ascii_lowercase(t[e.parent].name))

\* DirEntry::ptr_eq
ptr_eq(a, b) == a.node = b.node

RECURSIVE up(_, _, _)
up(t, n, k) ==
    IF n = NoNode \/ k = 0 THEN {}
    ELSE {n} \cup up(t, t[n].parent, k - 1)

\* n and the directories above it
Ancestors(t, n) == up(t, n, MaxNodes)

\* DirEntry::is_ancestor_of
is_ancestor_of(t, a, b) == a.node \in Ancestors(t, b.node)

RECURSIVE names_to(_, _, _)
names_to(t, n, k) ==
    IF n = NoNode \/ t[n].parent = NoNode \/ k = 0 THEN <<>>
    ELSE Append(names_to(t, t[n].parent, k - 1), Normal(to_ascii_lowercase(t[n].name)))

\* the names from the root down to directory n
names_above(t, n) == names_to(t, n, MaxNodes)

\* DirEntry::absolute_path: the names on the parent links, root first
absolute_path(t, e) ==
    IF e.parent = NoNode THEN <<Special("RootDir")>>
    ELSE <<Special("RootDir")>> \o names_above(t, e.parent) \o <<Normal(e.name)>>

-----------------------------------------------------------------------------
(* fs/fat/dir.rs: FatDirNode *)

\* FatDirNode::lookup
FatDirNode_lookup(t, d, name) ==
    LET found(n) ==
            IF n = NoNode THEN [res |-> "NotFound", entry |-> NoEntry]
            ELSE [res |-> "Ok", entry |-> Entry(n, d, to_ascii_lowercase(name))]
    IN  found(ff_find(t, d, name))

\* FatDirNode::create that makes a regular file for every other node type
FatDirNode_create_any(t, d, name, node_type) ==
    LET reference == Entry(NoNode, d, to_ascii_lowercase(name))
        made(r) ==
            IF r.err = "Ok"
            THEN [res |-> "Ok", t |-> r.t, entry |-> [reference EXCEPT !.node = r.node]]
            ELSE [res |-> into_vfs_err(r.err), t |-> r.t, entry |-> NoEntry]
    IN  CASE node_type = "Directory" -> made(ff_create(t, d, name, "dir"))
          [] OTHER -> made(ff_create(t, d, name, "file"))

\* FatDirNode::create
FatDirNode_create(t, d, name, node_type) ==
    LET reference == Entry(NoNode, d, to_ascii_lowercase(name))
        made(r) ==
            IF r.err = "Ok"
            THEN [res |-> "Ok", t |-> r.t, entry |-> [reference EXCEPT !.node = r.node]]
            ELSE [res |-> into_vfs_err(r.err), t |-> r.t, entry |-> NoEntry]
    IN  CASE node_type = "RegularFile" -> made(ff_create(t, d, name, "file"))
          [] node_type = "Directory" -> made(ff_create(t, d, name, "dir"))
          [] OTHER -> [res |-> "InvalidInput", t |-> t, entry |-> NoEntry]

\* FatDirNode::link that hands back the node it was given
FatDirNode_link_made(t, d, name, node) == [res |-> "Ok", t |-> t, entry |-> node]

\* FatDirNode::link
FatDirNode_link(t, d, name, node) ==
    [res |-> "PermissionDenied", t |-> t, entry |-> NoEntry]

\* FatDirNode::unlink that reports success and removes nothing
FatDirNode_unlink_kept(t, d, name) == [res |-> "Ok", t |-> t]

\* FatDirNode::unlink
FatDirNode_unlink(t, d, name) ==
    LET mapped(r) == [res |-> IF r.err = "Ok" THEN "Ok" ELSE into_vfs_err(r.err), t |-> r.t]
    IN  mapped(ff_remove(t, d, name))

\* FatDirNode::rename that removes the destination and reports success
\* without the codec's rename
FatDirNode_rename_unmoved(t, d, src_name, dst_dir, dst_name) ==
    LET after(removed) ==
            IF removed.err \notin {"Ok", "NotFound"}
            THEN [res |-> into_vfs_err(removed.err), t |-> removed.t]
            ELSE [res |-> "Ok", t |-> removed.t]
    IN  after(ff_remove(t, dst_dir, dst_name))

\* FatDirNode::rename: the destination name is removed first, and a
\* destination that is not there is not an error
FatDirNode_rename(t, d, src_name, dst_dir, dst_name) ==
    LET mapped(r) == [res |-> IF r.err = "Ok" THEN "Ok" ELSE into_vfs_err(r.err), t |-> r.t]
        after(removed) ==
            IF removed.err \notin {"Ok", "NotFound"}
            THEN [res |-> into_vfs_err(removed.err), t |-> removed.t]
            ELSE mapped(ff_rename(removed.t, d, src_name, dst_dir, dst_name))
    IN  after(ff_remove(t, dst_dir, dst_name))

-----------------------------------------------------------------------------
(* axfs_ng_vfs DirNode: the checks made before the backend is called *)

\* DirNode::unlink(name, is_dir)
DirNode_unlink(t, d, name, is_dir) ==
    LET checked(found) ==
            IF found.res # "Ok" THEN [res |-> found.res, t |-> t]
            ELSE IF is_dir /\ t[found.entry.node].kind # "dir"
                 THEN [res |-> "NotADirectory", t |-> t]
            ELSE IF ~is_dir /\ t[found.entry.node].kind = "dir"
                 THEN [res |-> "IsADirectory", t |-> t]
            ELSE FatDirNode_unlink(t, d, name)
    IN  checked(FatDirNode_lookup(t, d, name))

\* File::write_all from the start of a regular file
File_write_all(t, e, data) ==
    IF t[e.node].kind # "file" THEN [res |-> "IsADirectory", t |-> t]
    ELSE [res |-> "Ok",
          t |-> [t EXCEPT ![e.node].data =
                    data \o SubSeq(t[e.node].data, Len(data) + 1, Len(t[e.node].data))]]

-----------------------------------------------------------------------------
(* highlevel/fs.rs: FsContext *)

FsContext(cur) == [root_dir |-> RootEntry, current_dir |-> cur]

RECURSIVE walk_rootless(_, _, _, _, _)
\* the loop of resolve_inner with a RootDir component that leaves the
\* directory reached so far as it is
walk_rootless(t, ctx, dir, stack, components) ==
    LET comp == Head(components)
        popped == IF stack # <<>> THEN stack[Len(stack)] ELSE ctx.root_dir
        step ==
            CASE comp.c = "CurDir" -> [res |-> "Ok", entry |-> dir]
              [] comp.c = "ParentDir" -> [res |-> "Ok", entry |-> popped]
              [] comp.c = "RootDir" -> [res |-> "Ok", entry |-> dir]
              [] OTHER ->
                    IF as_dir(t, dir) # "Ok" THEN [res |-> as_dir(t, dir), entry |-> NoEntry]
                    ELSE FatDirNode_lookup(t, dir.node, comp.n)
        rest_stack == IF comp.c = "ParentDir" /\ stack # <<>>
                      THEN SubSeq(stack, 1, Len(stack) - 1)
                      ELSE stack
        go(next) ==
            IF next.res # "Ok" THEN [res |-> next.res, dir |-> NoEntry]
            ELSE walk_rootless(t, ctx, next.entry, rest_stack, Tail(components))
    IN  IF components = <<>> THEN [res |-> "Ok", dir |-> dir]
        ELSE go(step)

RECURSIVE walk(_, _, _, _, _)
\* the loop of FsContext::resolve_inner over the components; nothing is
\* ever pushed on stack, which is passed along as the code has it
walk(t, ctx, dir, stack, components) ==
    LET comp == Head(components)
        popped == IF stack # <<>> THEN stack[Len(stack)] ELSE ctx.root_dir
        step ==
            CASE comp.c = "CurDir" -> [res |-> "Ok", entry |-> dir]
              [] comp.c = "ParentDir" -> [res |-> "Ok", entry |-> popped]
              [] comp.c = "RootDir" -> [res |-> "Ok", entry |-> ctx.root_dir]
              [] OTHER ->
                    IF as_dir(t, dir) # "Ok" THEN [res |-> as_dir(t, dir), entry |-> NoEntry]
                    ELSE FatDirNode_lookup(t, dir.node, comp.n)
        rest_stack == IF comp.c = "ParentDir" /\ stack # <<>>
                      THEN SubSeq(stack, 1, Len(stack) - 1)
                      ELSE stack
        go(next) ==
            IF next.res # "Ok" THEN [res |-> next.res, dir |-> NoEntry]
            ELSE walk(t, ctx, next.entry, rest_stack, Tail(components))
    IN  IF components = <<>> THEN [res |-> "Ok", dir |-> dir]
        ELSE go(step)

\* FsContext::resolve_inner
resolve_inner(t, ctx, path) ==
    LET entry_name == file_name(path)
        ended(r) ==
            IF r.res # "Ok" THEN [res |-> r.res, dir |-> NoEntry, name |-> NoName]
            ELSE IF as_dir(t, r.dir) # "Ok"
                 THEN [res |-> as_dir(t, r.dir), dir |-> NoEntry, name |-> NoName]
            ELSE [res |-> "Ok", dir |-> r.dir, name |-> entry_name]
    IN  ended(walk(t, ctx, ctx.current_dir, <<>>,
                   IF entry_name # NoName THEN SubSeq(path, 1, Len(path) - 1) ELSE path))

\* FsContext::resolve
resolve(t, ctx, path) ==
    LET entry_of(r) ==
            IF r.res # "Ok" THEN [res |-> r.res, entry |-> NoEntry]
            ELSE IF r.name # NoName THEN FatDirNode_lookup(t, r.dir.node, r.name)
            ELSE [res |-> "Ok", entry |-> r.dir]
    IN  entry_of(resolve_inner(t, ctx, path))

\* FsContext::resolve_parent that gives the directory itself, without a
\* name, when the path has no file name
resolve_parent_unnamed(t, ctx, path) == resolve_inner(t, ctx, path)

\* FsContext::resolve_parent
resolve_parent(t, ctx, path) ==
    LET parent_of(r) ==
            IF r.res # "Ok" THEN r
            ELSE IF r.name # NoName THEN r
            ELSE IF entry_parent(t, r.dir) # NoEntry
                 THEN [res |-> "Ok", dir |-> entry_parent(t, r.dir), name |-> r.dir.name]
            ELSE [res |-> "InvalidInput", dir |-> NoEntry, name |-> NoName]
    IN  parent_of(resolve_inner(t, ctx, path))

\* FsContext::resolve_nonexistent
resolve_nonexistent(t, ctx, path) ==
    LET named(r) ==
            IF r.res # "Ok" THEN r
            ELSE IF r.name # NoName THEN r
            ELSE [res |-> "AlreadyExists", dir |-> NoEntry, name |-> NoName]
    IN  named(resolve_inner(t, ctx, path))

\* FsContext::write
FsContext_write(t, ctx, path, data) ==
    LET written(r) ==
            IF r.res # "Ok" THEN [res |-> r.res, t |-> t]
            ELSE File_write_all(t, r.entry, data)
    IN  written(resolve(t, ctx, path))

\* FsContext::remove_file and FsContext::remove_dir, which differ in the
\* error for an entry without parent and in the is_dir flag
remove(t, ctx, path, is_dir) ==
    LET unlinked(entry, parent) ==
            IF parent = NoEntry
            THEN [res |-> IF is_dir THEN "ResourceBusy" ELSE "IsADirectory", t |-> t]
            ELSE IF as_dir(t, parent) # "Ok" THEN [res |-> as_dir(t, parent), t |-> t]
            ELSE DirNode_unlink(t, parent.node, entry.name, is_dir)
        removed(r) ==
            IF r.res # "Ok" THEN [res |-> r.res, t |-> t]
            ELSE unlinked(r.entry, entry_parent(t, r.entry))
    IN  removed(resolve(t, ctx, path))

\* FsContext::remove_file
FsContext_remove_file(t, ctx, path) == remove(t, ctx, path, FALSE)

\* FsContext::remove_dir passing is_dir = false to unlink
FsContext_remove_dir_as_file(t, ctx, path) == remove(t, ctx, path, FALSE)

\* FsContext::remove_dir
FsContext_remove_dir(t, ctx, path) == remove(t, ctx, path, TRUE)

\* FsContext::rename without the test for a move of a directory below itself
FsContext_rename_unchecked(t, ctx, from, to) ==
    LET renamed(src, dst) ==
            IF src.res # "Ok" THEN [res |-> src.res, t |-> t]
            ELSE IF dst.res # "Ok" THEN [res |-> dst.res, t |-> t]
            ELSE IF as_dir(t, src.dir) # "Ok" THEN [res |-> as_dir(t, src.dir), t |-> t]
            ELSE IF as_dir(t, dst.dir) # "Ok" THEN [res |-> as_dir(t, dst.dir), t |-> t]
            ELSE FatDirNode_rename(t, src.dir.node, src.name, dst.dir.node, dst.name)
    IN  renamed(resolve_parent(t, ctx, from), resolve_parent(t, ctx, to))

\* FsContext::rename
FsContext_rename(t, ctx, from, to) ==
    LET renamed(src, dst) ==
            IF src.res # "Ok" THEN [res |-> src.res, t |-> t]
            ELSE IF dst.res # "Ok" THEN [res |-> dst.res, t |-> t]
            ELSE IF ~ptr_eq(src.dir, dst.dir) /\ is_ancestor_of(t, src.dir, dst.dir)
                 THEN [res |-> "InvalidInput", t |-> t]
            ELSE IF as_dir(t, src.dir) # "Ok" THEN [res |-> as_dir(t, src.dir), t |-> t]
            ELSE IF as_dir(t, dst.dir) # "Ok" THEN [res |-> as_dir(t, dst.dir), t |-> t]
            ELSE FatDirNode_rename(t, src.dir.node, src.name, dst.dir.node, dst.name)
    IN  renamed(resolve_parent(t, ctx, from), resolve_parent(t, ctx, to))

\* resolve_nonexistent followed by DirNode::create, as in FsContext::create_dir
create_at(t, ctx, path, node_type) ==
    LET made(r) ==
            IF r.res # "Ok" THEN [res |-> r.res, t |-> t, entry |-> NoEntry]
            ELSE IF as_dir(t, r.dir) # "Ok"
                 THEN [res |-> as_dir(t, r.dir), t |-> t, entry |-> NoEntry]
            ELSE FatDirNode_create(t, r.dir.node, r.name, node_type)
    IN  made(resolve_nonexistent(t, ctx, path))

\* FsContext::create_dir
FsContext_create_dir(t, ctx, path) == create_at(t, ctx, path, "Directory")

\* FsContext::link
FsContext_link(t, ctx, old_path, new_path) ==
    LET linked(old, new) ==
            IF old.res # "Ok" THEN [res |-> old.res, t |-> t, entry |-> NoEntry]
            ELSE IF new.res # "Ok" THEN [res |-> new.res, t |-> t, entry |-> NoEntry]
            ELSE IF as_dir(t, new.dir) # "Ok"
                 THEN [res |-> as_dir(t, new.dir), t |-> t, entry |-> NoEntry]
            ELSE FatDirNode_link(t, new.dir.node, new.name, old.entry)
    IN  linked(resolve(t, ctx, old_path), resolve_nonexistent(t, ctx, new_path))

\* FsContext::canonicalize
FsContext_canonicalize(t, ctx, path) ==
    LET path_of(r) ==
            IF r.res # "Ok" THEN [res |-> r.res, path |-> <<>>]
            ELSE [res |-> "Ok", path |-> absolute_path(t, r.entry)]
    IN  path_of(resolve(t, ctx, path))

\* FsContext::set_current_dir that takes any entry
FsContext_set_current_dir_unchecked(t, ctx, dir) ==
    [res |-> "Ok", ctx |-> [ctx EXCEPT !.current_dir = dir]]

\* FsContext::set_current_dir
FsContext_set_current_dir(t, ctx, dir) ==
    IF as_dir(t, dir) # "Ok" THEN [res |-> as_dir(t, dir), ctx |-> ctx]
    ELSE [res |-> "Ok", ctx |-> [ctx EXCEPT !.current_dir = dir]]

-----------------------------------------------------------------------------
(* highlevel/fs.rs: ReadDir, over FatDirNode::read_dir.                    *)
(*                                                                         *)
(* A directory being read is given by the number n of its entries, named   *)
(* 1..n in backend order, and by the position `bad` of an entry that the   *)
(* codec cannot read (0 when it can read them all).  It is not modified    *)
(* while it is read.                                                       *)

BUF_SIZE == 128

None == [kind |-> "None", val |-> 0]

SomeOk(entry) == [kind |-> "Ok", val |-> entry]

SomeErr(err) == [kind |-> "Err", val |-> err]

\* item i of the codec's Dir::iter
ff_item(d, i) ==
    IF i = d.bad THEN [err |-> "Io", entry |-> 0] ELSE [err |-> "Ok", entry |-> i]

\* the closure ReadDir::next hands to read_dir, that accepts an entry for
\* one more than BUF_SIZE entries
ReadDir_visitor_one_more(v, entry, offset) ==
    [go |-> Len(v.buf) + 1 <= BUF_SIZE,
     v |-> [buf |-> Append(v.buf, entry), offset |-> offset]]

\* the closure ReadDir::next hands to read_dir: v is what it captures of
\* the iterator, go what it answers
ReadDir_visitor(v, entry, offset) ==
    [go |-> Len(v.buf) + 1 < BUF_SIZE,
     v |-> [buf |-> Append(v.buf, entry), offset |-> offset]]

\* what the visitor answers to the entry after `count` entries of this call
visited(d, offset, count, v) ==
    ReadDir_visitor(v, ff_item(d, offset + count + 1).entry, offset + count + 1)

\* the loop of FatDirNode::read_dir has an entry to go on to after this one
goes_on(d, offset, count, v) ==
    /\ offset + count < d.n
    /\ ff_item(d, offset + count + 1).err = "Ok"
    /\ visited(d, offset, count, v).go

\* what FatDirNode::read_dir returns when its loop ends at this entry
ends_with(d, offset, count, v) ==
    IF offset + count >= d.n
    THEN [res |-> "Ok", count |-> count, v |-> v]
    ELSE IF ff_item(d, offset + count + 1).err # "Ok"
    THEN [res |-> into_vfs_err(ff_item(d, offset + count + 1).err), count |-> count, v |-> v]
    ELSE [res |-> "Ok", count |-> count, v |-> visited(d, offset, count, v).v]

RECURSIVE read_dir_loop(_, _, _, _)
\* the for loop of FatDirNode::read_dir over dir.iter().skip(offset)
read_dir_loop(d, offset, count, v) ==
    IF goes_on(d, offset, count, v)
    THEN read_dir_loop(d, offset, count + 1, visited(d, offset, count, v).v)
    ELSE ends_with(d, offset, count, v)

\* FatDirNode::read_dir
FatDirNode_read_dir(d, offset, v) == read_dir_loop(d, offset, 0, v)

\* FsContext::read_dir, for the directory the path resolves to
FsContext_read_dir(d) == [dir |-> d, buf |-> <<>>, offset |-> 0, ended |-> FALSE]

\* self.buf.pop_front().map(Ok)
pop_front(it) == [it |-> [it EXCEPT !.buf = Tail(it.buf)], ret |-> SomeOk(Head(it.buf))]

\* ReadDir::next that takes a refill which failed with nothing buffered for
\* the end of the directory
ReadDir_next_error_ends(it) ==
    LET refilled(r) ==
            IF r.v.buf = <<>>
            THEN [it |-> [it EXCEPT !.offset = r.v.offset, !.ended = TRUE], ret |-> None]
            ELSE pop_front([it EXCEPT !.buf = r.v.buf, !.offset = r.v.offset])
    IN  IF it.ended THEN [it |-> it, ret |-> None]
        ELSE IF it.buf # <<>> THEN pop_front(it)
        ELSE refilled(FatDirNode_read_dir(it.dir, it.offset,
                                          [buf |-> <<>>, offset |-> it.offset]))

\* ReadDir::next
ReadDir_next(it) ==
    LET refilled(r) ==
            IF r.v.buf = <<>>
            THEN IF r.res # "Ok"
                 THEN [it |-> [it EXCEPT !.offset = r.v.offset], ret |-> SomeErr(r.res)]
                 ELSE [it |-> [it EXCEPT !.offset = r.v.offset, !.ended = TRUE], ret |-> None]
            ELSE pop_front([it EXCEPT !.buf = r.v.buf, !.offset = r.v.offset])
    IN  IF it.ended THEN [it |-> it, ret |-> None]
        ELSE IF it.buf # <<>> THEN pop_front(it)
        ELSE refilled(FatDirNode_read_dir(it.dir, it.offset,
                                          [buf |-> <<>>, offset |-> it.offset]))

\* no directory is being read
NoReadDir == FsContext_read_dir([n |-> 0, bad |-> 0])

-----------------------------------------------------------------------------
(* api/arceos_posix_api/src/imp/fs.rs: the POSIX shim.                     *)
(*                                                                         *)
(* A shim-level result is a record whose err is "Ok" or the name of a      *)
(* LinuxError.  The FD table maps each fd to a FileLike: a File with the   *)
(* entry it was opened on and its cursor, a Directory, or nothing.         *)

AT_FDCWD == -100

MaxFd == 2

Fds == 0..(MaxFd - 1)

\* axerrno LinuxError as i32
LinuxError(e) ==
    CASE e = "EPERM" -> 1
      [] e = "ENOENT" -> 2
      [] e = "EIO" -> 5
      [] e = "EBADF" -> 9
      [] e = "EAGAIN" -> 11
      [] e = "ENOMEM" -> 12
      [] e = "EACCES" -> 13
      [] e = "EFAULT" -> 14
      [] e = "EBUSY" -> 16
      [] e = "EEXIST" -> 17
      [] e = "ENOTDIR" -> 20
      [] e = "EISDIR" -> 21
      [] e = "EINVAL" -> 22
      [] e = "EMFILE" -> 24
      [] e = "ENOSPC" -> 28
      [] e = "ERANGE" -> 34
      [] e = "ENOSYS" -> 38
      [] e = "ENOTEMPTY" -> 39
      [] e = "EADDRINUSE" -> 98
      [] e = "ECONNRESET" -> 104
      [] e = "ENOTCONN" -> 107
      [] e = "ECONNREFUSED" -> 111

\* the errno names of the table of VFS errors
TableErrnos ==
    {"ENOENT", "EEXIST", "EISDIR", "ENOTDIR", "ENOTEMPTY", "EINVAL", "EACCES",
     "EIO", "ENOSPC", "ENOSYS", "EBUSY", "EFAULT", "EAGAIN"}

\* syscall_body!: the value, or the negated errno
syscall_body(r) == IF r.err = "Ok" THEN r.val ELSE -LinuxError(r.err)

NoFile == [kind |-> "none", entry |-> NoEntry, pos |-> 0]

EmptyFdTable == [fd \in Fds |-> NoFile]

\* a pointer that is not a valid C string
NullPtr == <<Special("Null")>>

\* utils::char_ptr_to_str
char_ptr_to_str(p) == IF p = NullPtr THEN "EFAULT" ELSE "Ok"

\* fd_ops::get_file_like
get_file_like(ft, fd) ==
    IF fd \in Fds /\ ft[fd].kind # "none"
    THEN [err |-> "Ok", f |-> ft[fd]]
    ELSE [err |-> "EBADF", f |-> NoFile]

\* fd_ops::add_file_like: the lowest free slot
add_file_like(ft, f) ==
    IF \A fd \in Fds : ft[fd].kind # "none"
    THEN [err |-> "EMFILE", val |-> 0, ft |-> ft]
    ELSE LET fd == Min({x \in Fds : ft[x].kind = "none"})
         IN  [err |-> "Ok", val |-> fd, ft |-> [ft EXCEPT ![fd] = f]]

\* File::from_fd
File_from_fd(ft, fd) ==
    LET downcast(r) ==
            IF r.err # "Ok" THEN r
            ELSE IF r.f.kind # "File" THEN [err |-> "EINVAL", f |-> NoFile]
            ELSE r
    IN  downcast(get_file_like(ft, fd))

\* Directory::from_fd
Directory_from_fd(ft, fd) ==
    LET downcast(r) ==
            IF r.err # "Ok" THEN r
            ELSE IF r.f.kind # "Directory" THEN [err |-> "EINVAL", f |-> NoFile]
            ELSE r
    IN  downcast(get_file_like(ft, fd))

\* FsContext::with_current_dir
FsContext_with_current_dir(t, fs, dir) ==
    IF as_dir(t, dir) # "Ok" THEN [res |-> as_dir(t, dir), ctx |-> fs]
    ELSE [res |-> "Ok", ctx |-> [root_dir |-> fs.root_dir, current_dir |-> dir]]

\* the values of an FsContext
FsContexts ==
    [root_dir : {RootEntry},
     current_dir : [node : 0..MaxNodes, parent : 0..MaxNodes, name : Seq(0..255)]]

\* with_fs: the closure f, a function of the context, runs on FS_CONTEXT
\* itself, or on a context made for dirfd that is dropped afterwards.  f
\* gives a result, the tree and the context as it leaves them; fs is
\* FS_CONTEXT after the call.
with_fs(ft, t, fs, dirfd, f) ==
    LET on_self(r) == [r |-> r, fs |-> r.ctx]
        on_other(r) == [r |-> r, fs |-> fs]
        failed(e) == [r |-> [err |-> e, val |-> NoFile, t |-> t, ctx |-> fs], fs |-> fs]
        derived(c) ==
            IF c.res # "Ok" THEN failed(errno(c.res)) ELSE on_other(f[c.ctx])
        of_dir(d) ==
            IF d.err # "Ok" THEN failed(d.err)
            ELSE derived(FsContext_with_current_dir(t, fs, d.f.entry))
    IN  IF dirfd = AT_FDCWD THEN on_self(f[fs])
        ELSE of_dir(Directory_from_fd(ft, dirfd))

\* ctypes: the open flags
O_RDONLY == 0

O_WRONLY == 1

O_RDWR == 2

O_CREAT == 64

O_EXCL == 128

O_TRUNC == 512

O_APPEND == 1024

O_DIRECTORY == 65536

O_EXEC == 2097152

\* flags & bit != 0, for a bit that is a power of two and flags that are
\* not negative, for which `flags as u32` is flags
flag_set(flags, bit) == (flags \div bit) % 2 = 1

\* OpenOptions::new
OpenOptions_new ==
    [read |-> FALSE, write |-> FALSE, append |-> FALSE, truncate |-> FALSE,
     create |-> FALSE, create_new |-> FALSE, execute |-> FALSE, directory |-> FALSE]

\* flags_to_options that leaves create_new unset
flags_to_options_no_excl(flags) ==
    LET u32 == flags
    IN  [read |-> u32 % 4 # O_WRONLY,
         write |-> u32 % 4 # O_RDONLY,
         append |-> flag_set(u32, O_APPEND),
         truncate |-> flag_set(u32, O_TRUNC),
         create |-> flag_set(u32, O_CREAT),
         create_new |-> FALSE,
         execute |-> flag_set(u32, O_EXEC),
         directory |-> flag_set(u32, O_DIRECTORY)]

\* flags_to_options
flags_to_options(flags) ==
    LET u32 == flags
        mode == CASE u32 % 4 = O_RDONLY -> [OpenOptions_new EXCEPT !.read = TRUE]
                  [] u32 % 4 = O_WRONLY -> [OpenOptions_new EXCEPT !.write = TRUE]
                  [] OTHER -> [OpenOptions_new EXCEPT !.read = TRUE, !.write = TRUE]
    IN  [mode EXCEPT !.append = flag_set(u32, O_APPEND),
                     !.truncate = flag_set(u32, O_TRUNC),
                     !.create = flag_set(u32, O_CREAT),
                     !.execute = flag_set(u32, O_EXEC),
                     !.create_new = flag_set(u32, O_EXCL),
                     !.directory = flag_set(u32, O_DIRECTORY)]

\* an OpenResult, or the VFS error
OpenFailed(res, t) == [res |-> res, t |-> t, f |-> NoFile]

Opened(kind, t, entry) ==
    [res |-> "Ok", t |-> t, f |-> [kind |-> kind, entry |-> entry, pos |-> 0]]

\* OpenOptions::open
OpenOptions_open(o, t, fs, path) ==
    LET made(c) ==
            IF c.res # "Ok" THEN OpenFailed(c.res, c.t) ELSE Opened("File", c.t, c.entry)
        found(e) ==
            IF o.create_new THEN OpenFailed("AlreadyExists", t)
            ELSE IF t[e.node].kind = "dir"
                 THEN IF o.truncate THEN OpenFailed("IsADirectory", t)
                      ELSE Opened("Directory", t, e)
            ELSE IF o.directory THEN OpenFailed("NotADirectory", t)
            ELSE Opened("File",
                        IF o.truncate /\ o.write THEN [t EXCEPT ![e.node].data = <<>>] ELSE t,
                        e)
        resolved(r) ==
            IF r.res = "Ok" THEN found(r.entry)
            ELSE IF r.res = "NotFound" /\ (o.create \/ o.create_new)
                 THEN made(create_at(t, fs, path, "RegularFile"))
            ELSE OpenFailed(r.res, t)
    IN  resolved(resolve(t, fs, path))

\* OpenResult::into_file
into_file(f) == IF f.kind = "File" THEN "Ok" ELSE "IsADirectory"

\* add_to_fd
add_to_fd(ft, f) == add_file_like(ft, f)

\* what a syscall did: the value it returned, the FD table, the tree and
\* FS_CONTEXT after it, and the bytes it stored through a pointer
Done(ret, ft, t, fs, out) == [ret |-> ret, ft |-> ft, t |-> t, fs |-> fs, out |-> out]

\* sys_open
sys_open(ft, t, fs, filename, flags) ==
    LET added(o, a) == Done(syscall_body(a), a.ft, o.t, fs, <<>>)
        opened(o) ==
            IF o.res # "Ok" THEN Done(-LinuxError(errno(o.res)), ft, o.t, fs, <<>>)
            ELSE added(o, add_to_fd(ft, o.f))
    IN  IF char_ptr_to_str(filename) # "Ok"
        THEN Done(-LinuxError(char_ptr_to_str(filename)), ft, t, fs, <<>>)
        ELSE opened(OpenOptions_open(flags_to_options(flags), t, fs, filename))

\* sys_openat
sys_openat(ft, t, fs, dirfd, name, flags) ==
    LET opened(o, c) ==
            [err |-> IF o.res = "Ok" THEN "Ok" ELSE errno(o.res),
             val |-> o.f, t |-> o.t, ctx |-> c]
        open_in(c) == opened(OpenOptions_open(flags_to_options(flags), t, c, name), c)
        added(w, a) == Done(syscall_body(a), a.ft, w.r.t, w.fs, <<>>)
        after(w) ==
            IF w.r.err # "Ok" THEN Done(-LinuxError(w.r.err), ft, w.r.t, w.fs, <<>>)
            ELSE added(w, add_to_fd(ft, w.r.val))
    IN  IF char_ptr_to_str(name) # "Ok" THEN Done(-1, ft, t, fs, <<>>)
        ELSE after(with_fs(ft, t, fs, dirfd, [c \in FsContexts |-> open_in(c)]))

\* File::seek on the handle of an open file.  `offset as u64` of a negative
\* offset is 2^64 + offset, which SeekFrom::Start does not take
File_seek(t, f, whence, offset) ==
    LET moved(pos) ==
            IF pos < 0 THEN [res |-> "InvalidInput", pos |-> f.pos]
            ELSE [res |-> "Ok", pos |-> pos]
    IN  CASE whence = 0 -> moved(offset)
          [] whence = 1 -> moved(f.pos + offset)
          [] whence = 2 -> moved(Len(t[f.entry.node].data) + offset)

\* sys_lseek
sys_lseek(ft, t, fs, fd, offset, whence) ==
    LET sought(f, s) ==
            IF s.res # "Ok" THEN Done(-LinuxError(errno(s.res)), ft, t, fs, <<>>)
            ELSE Done(s.pos, [ft EXCEPT ![fd] = [f EXCEPT !.pos = s.pos]], t, fs, <<>>)
        of_file(r) ==
            IF r.err # "Ok" THEN Done(-LinuxError(r.err), ft, t, fs, <<>>)
            ELSE sought(r.f, File_seek(t, r.f, whence, offset))
    IN  IF whence \notin {0, 1, 2} THEN Done(-LinuxError("EINVAL"), ft, t, fs, <<>>)
        ELSE of_file(File_from_fd(ft, fd))

\* File::metadata and metadata_to_stat: the node type and the size
File_stat(t, f) == [st_mode |-> t[f.entry.node].kind, st_size |-> Len(t[f.entry.node].data)]

\* FileLike::stat
FileLike_stat(t, f) ==
    IF f.kind = "File" THEN [err |-> "Ok", st |-> <<File_stat(t, f)>>]
    ELSE [err |-> "EBADF", st |-> <<>>]

\* sys_stat
sys_stat(ft, t, fs, path, buf_is_null) ==
    LET stat_of(f) == Done(0, ft, t, fs, FileLike_stat(t, f).st)
        opened(o) ==
            IF o.res # "Ok" THEN Done(-LinuxError(errno(o.res)), ft, o.t, fs, <<>>)
            ELSE IF into_file(o.f) # "Ok"
                 THEN Done(-LinuxError(errno(into_file(o.f))), ft, o.t, fs, <<>>)
            ELSE stat_of(o.f)
    IN  IF buf_is_null THEN Done(-LinuxError("EFAULT"), ft, t, fs, <<>>)
        ELSE IF char_ptr_to_str(path) # "Ok"
             THEN Done(-LinuxError(char_ptr_to_str(path)), ft, t, fs, <<>>)
        ELSE opened(OpenOptions_open([OpenOptions_new EXCEPT !.read = TRUE], t, fs, path))

\* sys_fstat
sys_fstat(ft, t, fs, fd, buf_is_null) ==
    LET stat_of(s) ==
            IF s.err # "Ok" THEN Done(-LinuxError(s.err), ft, t, fs, <<>>)
            ELSE Done(0, ft, t, fs, s.st)
        of_fd(r) ==
            IF r.err # "Ok" THEN Done(-LinuxError(r.err), ft, t, fs, <<>>)
            ELSE stat_of(FileLike_stat(t, r.f))
    IN  IF buf_is_null THEN Done(-LinuxError("EFAULT"), ft, t, fs, <<>>)
        ELSE of_fd(get_file_like(ft, fd))

\* sys_rename
sys_rename(ft, t, fs, old, new) ==
    LET renamed(r) ==
            IF r.res # "Ok" THEN Done(-LinuxError(errno(r.res)), ft, r.t, fs, <<>>)
            ELSE Done(0, ft, r.t, fs, <<>>)
    IN  IF char_ptr_to_str(old) # "Ok"
        THEN Done(-LinuxError(char_ptr_to_str(old)), ft, t, fs, <<>>)
        ELSE IF char_ptr_to_str(new) # "Ok"
             THEN Done(-LinuxError(char_ptr_to_str(new)), ft, t, fs, <<>>)
        ELSE renamed(FsContext_rename(t, fs, old, new))

RECURSIVE path_bytes(_)
\* the bytes of a path as a string: "/" for the root, components joined
\* by "/"
path_bytes(p) ==
    LET joined(rest) ==
            IF Head(p).c = "RootDir" THEN <<47>> \o rest
            ELSE IF Len(p) > 1 THEN Head(p).n \o <<47>> \o rest
            ELSE Head(p).n \o rest
    IN  IF p = <<>> THEN <<>> ELSE joined(path_bytes(Tail(p)))

\* sys_getcwd whose test lets a path of `size` bytes through
sys_getcwd_no_room(ft, t, fs, buf, size, mem) ==
    LET copied(cwd) ==
            IF Len(cwd) <= size
            THEN Done(buf, ft, t, fs,
                      [i \in DOMAIN mem |-> IF i <= Len(cwd) THEN cwd[i]
                                            ELSE IF i = Len(cwd) + 1 THEN 0
                                            ELSE mem[i]])
            ELSE Done(-LinuxError("ERANGE"), ft, t, fs, mem)
    IN  IF buf = 0 THEN Done(0, ft, t, fs, mem)
        ELSE copied(path_bytes(absolute_path(t, fs.current_dir)))

\* sys_getcwd: mem is the memory at buf, of which the first `size` bytes
\* are the caller's buffer
sys_getcwd(ft, t, fs, buf, size, mem) ==
    LET copied(cwd) ==
            IF Len(cwd) < size
            THEN Done(buf, ft, t, fs,
                      [i \in DOMAIN mem |-> IF i <= Len(cwd) THEN cwd[i]
                                            ELSE IF i = Len(cwd) + 1 THEN 0
                                            ELSE mem[i]])
            ELSE Done(-LinuxError("ERANGE"), ft, t, fs, mem)
    IN  IF buf = 0 THEN Done(0, ft, t, fs, mem)
        ELSE copied(path_bytes(absolute_path(t, fs.current_dir)))

\* what the last syscall was: its name, the value it returned, its fd,
\* its flags, whence or size, whether a pointer it was given was invalid,
\* the node its path named before the call, and the bytes it stored
Sys(op, ret, fd, arg, bad, x, out) ==
    [op |-> op, ret |-> ret, fd |-> fd, arg |-> arg, bad |-> bad, x |-> x, out |-> out]

NoSys == Sys("none", 0, AT_FDCWD, 0, FALSE, NoNode, <<>>)

-----------------------------------------------------------------------------
(* highlevel/fs.rs: FsContexts made from another one.  FS_CONTEXT has the  *)
(* id 0, the others are kept in `clones`.                                  *)

MaxClones == 2

NoCtx == [root_dir |-> NoEntry, current_dir |-> NoEntry]

NoClones == [i \in 1..MaxClones |-> NoCtx]

\* impl Clone for FsContext
FsContext_clone(c) == [root_dir |-> c.root_dir, current_dir |-> c.current_dir]

\* a call on an FsContext: the context it was made on, its dirfd, the entry
\* it was given, its result, and the id of the context it made
CtxCall(op, on, fd, dir, res, made) ==
    [op |-> op, on |-> on, fd |-> fd, dir |-> dir, res |-> res, made |-> made]

NoCtxCall == CtxCall("none", 0, AT_FDCWD, NoEntry, "Ok", 0)

-----------------------------------------------------------------------------
(* fs/ext4/util.rs *)

\* the largest value of a LinuxError
MaxLinuxError == 133

\* LinuxError::try_from(i32)
LinuxError_try_from(c) == c \in 1..MaxLinuxError

\* into_vfs_err of the ext4 adapter that lifts every code to Io
ext4_into_vfs_err_io(c) == "Io"

\* into_vfs_err of the ext4 adapter, on the code of the codec's error
ext4_into_vfs_err(c) ==
    IF ~LinuxError_try_from(c) THEN "Io"
    ELSE CASE c = LinuxError("EADDRINUSE") -> "AddrInUse"
           [] c = LinuxError("EEXIST") -> "AlreadyExists"
           [] c = LinuxError("EFAULT") -> "BadAddress"
           [] c = LinuxError("ECONNREFUSED") -> "ConnectionRefused"
           [] c = LinuxError("ECONNRESET") -> "ConnectionReset"
           [] c = LinuxError("ENOTEMPTY") -> "DirectoryNotEmpty"
           [] c = LinuxError("EINVAL") -> "InvalidData"
           [] c = LinuxError("EIO") -> "Io"
           [] c = LinuxError("EISDIR") -> "IsADirectory"
           [] c = LinuxError("ENOMEM") -> "NoMemory"
           [] c = LinuxError("ENOTDIR") -> "NotADirectory"
           [] c = LinuxError("ENOTCONN") -> "NotConnected"
           [] c = LinuxError("ENOENT") -> "NotFound"
           [] c = LinuxError("EACCES") -> "PermissionDenied"
           [] c = LinuxError("EBUSY") -> "ResourceBusy"
           [] c = LinuxError("ENOSPC") -> "StorageFull"
           [] c = LinuxError("ENOSYS") -> "Unsupported"
           [] c = LinuxError("EAGAIN") -> "WouldBlock"
           [] OTHER -> "Io"

-----------------------------------------------------------------------------
(* The mutexes of the shim and the steps of each syscall that take and     *)
(* release them, in the order of the code.  A step acquires a mutex,       *)
(* releases one, or does a piece of work.                                  *)

MaxThreads == 2

MaxCalls == 2

Threads == 1..MaxThreads

Mutex(m, f) == [m |-> m, f |-> f]

FS_CONTEXT == Mutex("FS_CONTEXT", 0)

FD_TABLE == Mutex("FD_TABLE", 0)

\* the mutex of the filesystem, around the state of the codec
FsMutex == Mutex("Filesystem", 0)

\* File::inner of the file with this id
FileMutex(f) == Mutex("File", f)

Acq(l) == [k |-> "acq", m |-> l.m, f |-> l.f]

Rel(l) == [k |-> "rel", m |-> l.m, f |-> l.f]

Io(what) == [k |-> "io", m |-> what, f |-> 0]

NoStep == [k |-> "none", m |-> "none", f |-> 0]

\* fd_ops::get_file_like and fd_ops::add_file_like
fd_table_steps == <<Acq(FD_TABLE), Rel(FD_TABLE)>>

\* OpenOptions::open, FsContext::rename: work of the backend
backend_steps(what) == <<Acq(FsMutex), Io(what), Rel(FsMutex)>>

\* sys_open
sys_open_steps ==
    <<Acq(FS_CONTEXT)>> \o backend_steps("open") \o <<Rel(FS_CONTEXT)>> \o fd_table_steps

\* sys_openat through with_fs
sys_openat_steps(at_fdcwd) ==
    <<Acq(FS_CONTEXT)>> \o (IF at_fdcwd THEN <<>> ELSE fd_table_steps)
        \o backend_steps("open") \o <<Rel(FS_CONTEXT)>> \o fd_table_steps

\* FileLike::stat for File
FileLike_stat_steps(f) ==
    <<Acq(FileMutex(f))>> \o backend_steps("stat") \o <<Rel(FileMutex(f))>>

\* sys_stat that keeps the guard of FS_CONTEXT until it returns
sys_stat_steps_guard_kept(f) ==
    <<Acq(FS_CONTEXT)>> \o backend_steps("open") \o FileLike_stat_steps(f)
        \o <<Rel(FS_CONTEXT)>>

\* sys_stat: the file it opens is new and has the id f
sys_stat_steps(f) ==
    <<Acq(FS_CONTEXT)>> \o backend_steps("open") \o <<Rel(FS_CONTEXT)>>
        \o FileLike_stat_steps(f)

\* sys_fstat
sys_fstat_steps(f) == fd_table_steps \o FileLike_stat_steps(f)

\* sys_lseek
sys_lseek_steps(f) ==
    fd_table_steps \o <<Acq(FileMutex(f)), Io("seek"), Rel(FileMutex(f))>>

\* sys_rename in which FatDirNode::rename locks the filesystem of dst_dir
\* as well, which is its own
sys_rename_steps_dst_locked ==
    <<Acq(FS_CONTEXT), Acq(FsMutex), Acq(FsMutex), Io("rename"), Rel(FsMutex),
      Rel(FS_CONTEXT)>>

\* sys_rename
sys_rename_steps == <<Acq(FS_CONTEXT)>> \o backend_steps("rename") \o <<Rel(FS_CONTEXT)>>

\* sys_getcwd
sys_getcwd_steps == <<Acq(FS_CONTEXT), Io("absolute_path"), Rel(FS_CONTEXT), Io("copy")>>

\* FileLike::write for File that does not wait for the filesystem
FileLike_write_steps_unlocked(f) ==
    <<Acq(FileMutex(f)), Io("alloc"), Io("take"), Io("store"), Rel(FileMutex(f))>>

\* FileLike::write for File: the backend takes the next free block, which
\* it reads and then advances, and stores the data in it
FileLike_write_steps(f) ==
    <<Acq(FileMutex(f)), Acq(FsMutex), Io("alloc"), Io("take"), Io("store"),
      Rel(FsMutex), Rel(FileMutex(f))>>

\* a write through an fd
write_steps(f) == fd_table_steps \o FileLike_write_steps(f)

\* a read through an fd: FileLike::read for File
read_steps(f) ==
    fd_table_steps \o <<Acq(FileMutex(f))>> \o backend_steps("read")
        \o <<Rel(FileMutex(f))>>

Syscalls ==
    {"open", "openat", "openat_fd", "stat", "fstat", "lseek", "rename", "getcwd", "write",
     "read"}

\* the steps of a syscall of thread t, whose fd refers to file t and whose
\* sys_stat opens the file MaxThreads + t
Steps(op, t) ==
    CASE op = "open" -> sys_open_steps
      [] op = "openat" -> sys_openat_steps(TRUE)
      [] op = "openat_fd" -> sys_openat_steps(FALSE)
      [] op = "stat" -> sys_stat_steps(MaxThreads + t)
      [] op = "fstat" -> sys_fstat_steps(t)
      [] op = "lseek" -> sys_lseek_steps(t)
      [] op = "rename" -> sys_rename_steps
      [] op = "getcwd" -> sys_getcwd_steps
      [] op = "write" -> write_steps(t)
      [] op = "read" -> read_steps(t)

Mutexes ==
    {FS_CONTEXT, FD_TABLE, FsMutex} \cup {FileMutex(f) : f \in 1..(2 * MaxThreads)}

NoThread ==
    [op |-> "none", prog |-> <<>>, calls |-> 0, at |-> NoStep, ctx_acq |-> 0,
     reg |-> 0, written |-> <<>>]

NoThreads == [t \in Threads |-> NoThread]

NoOwner == [l \in Mutexes |-> 0]

MaxBlocks == MaxThreads * MaxCalls

EmptyDisk ==
    [next_free |-> 1,
     block |-> [b \in 1..MaxBlocks |-> 0],
     chain |-> [f \in Threads |-> <<>>],
     cursor |-> [f \in Threads |-> 0]]

-----------------------------------------------------------------------------
(* axmm/backend/shared.rs: a region of pages shared by its owners.  The    *)
(* region is an Arc<[PhysAddr]>; an owner is a Backend::Shared that holds  *)
(* a clone of it and maps it at `start` in its own page table.  Page i of  *)
(* the region is frame i.  An entry of a page table is "none", "4K" (the   *)
(* frame of the region, mapped by map_shared) or "huge" (a huge page that  *)
(* covers the address).                                                    *)

MaxPages == 2

MaxOwners == 2

\* a frame is deallocated at most this many times in a run of the model
MaxFrees == 2

Pages == 1..MaxPages

Owners == 1..MaxOwners

\* PageTable::map: fails when the address is mapped already
pt_map(pt, i) ==
    IF pt[i] # "none" THEN [ok |-> FALSE, pt |-> pt]
    ELSE [ok |-> TRUE, pt |-> [pt EXCEPT ![i] = "4K"]]

\* PageTable::unmap: removes the mapping that covers the address and gives
\* its size, or fails when there is none
pt_unmap(pt, i) ==
    IF pt[i] = "none" THEN [ok |-> FALSE, page_size |-> "none", pt |-> pt]
    ELSE [ok |-> TRUE, page_size |-> pt[i], pt |-> [pt EXCEPT ![i] = "none"]]

\* dealloc_frame
dealloc_frame(freed, i) == [freed EXCEPT ![i] = @ + 1]

RECURSIVE map_shared(_, _)
\* Backend::map_shared, from page i on
map_shared(pt, i) ==
    IF i > MaxPages THEN [ret |-> TRUE, pt |-> pt]
    ELSE IF ~pt_map(pt, i).ok THEN [ret |-> FALSE, pt |-> pt]
    ELSE map_shared(pt_map(pt, i).pt, i + 1)

RECURSIVE unmap_shared(_, _, _, _)
\* Backend::unmap_shared, from page i on, with should_dealloc as it was
\* read from Arc::strong_count at the start of the call
unmap_shared(pt, freed, should_dealloc, i) ==
    IF i > MaxPages THEN [ret |-> TRUE, pt |-> pt, freed |-> freed]
    ELSE IF ~pt_unmap(pt, i).ok THEN unmap_shared(pt, freed, should_dealloc, i + 1)
    ELSE IF pt_unmap(pt, i).page_size = "huge"
         THEN [ret |-> FALSE, pt |-> pt_unmap(pt, i).pt, freed |-> freed]
    ELSE unmap_shared(pt_unmap(pt, i).pt,
                      IF should_dealloc THEN dealloc_frame(freed, i) ELSE freed,
                      should_dealloc, i + 1)

\* the region: the owners that hold the Arc, the page table of each owner,
\* how often each frame was deallocated, the owners in unmap_shared with
\* the should_dealloc they have read, and the owners that have called
\* unmap_shared and have not mapped the region since
Shared(owners, pt, freed, run, called) ==
    [owners |-> owners, pt |-> pt, freed |-> freed, run |-> run, called |-> called]

NoShared ==
    Shared({}, [o \in Owners |-> [i \in Pages |-> "none"]], [i \in Pages |-> 0],
           [o \in Owners |-> "idle"], {})

SharedCall(op, o, ret) == [op |-> op, o |-> o, ret |-> ret]

NoSharedCall == SharedCall("none", 0, TRUE)

-----------------------------------------------------------------------------
(* fs/fat/fs.rs: the inode allocator of a FAT mount, a Slab<()>.  A slab   *)
(* hands out the key it vacated last, or the next key after all the keys   *)
(* it ever handed out.                                                     *)

MaxInodes == 4

\* a Slab: the keys in use, the vacant keys (the one vacated last first),
\* and the number of keys ever handed out
Slab_new == [used |-> {}, vacant |-> <<>>, len |-> 0]

\* Slab::insert
Slab_insert(s) ==
    IF s.vacant # <<>>
    THEN [key |-> Head(s.vacant),
          s |-> [s EXCEPT !.used = @ \cup {Head(s.vacant)}, !.vacant = Tail(@)]]
    ELSE [key |-> s.len, s |-> [s EXCEPT !.used = @ \cup {s.len}, !.len = @ + 1]]

\* Slab::remove
Slab_remove(s, key) == [s EXCEPT !.used = @ \ {key}, !.vacant = <<key>> \o @]

\* FatFilesystemInner::alloc_inode
alloc_inode(s) ==
    LET made(r) == [ino |-> r.key + 1, s |-> r.s]
    IN  made(Slab_insert(s))

\* FatFilesystemInner::release_inode
release_inode(s, ino) == Slab_remove(s, ino - 1)

\* FatDirNode::inode
FatDirNode_inode == 1

\* file_metadata: the inode it reports
file_metadata_inode == 1

\* FatDirNode::metadata: the inode it reports, for the root directory and
\* for a directory that has an entry in its parent
FatDirNode_metadata_inode(is_root) ==
    IF is_root THEN FatDirNode_inode ELSE file_metadata_inode

\* the mount: its allocator, and the inode allocated for each node (0 for
\* a node that is not there); node 1 is the root directory
FatFilesystem_new ==
    LET made(r) == [slab |-> r.s,
                    ino |-> [n \in 1..MaxInodes |-> IF n = 1 THEN r.ino ELSE 0],
                    kind |-> [n \in 1..MaxInodes |-> IF n = 1 THEN "dir" ELSE "none"]]
    IN  made(alloc_inode(Slab_new))

NoInodes == [slab |-> Slab_new, ino |-> <<>>, kind |-> <<>>]

Report(node, inode) == [node |-> node, inode |-> inode]

NoReport == Report(0, 0)

-----------------------------------------------------------------------------
(* fs/fat/dir.rs: FatDirNode::rename between the root directories of       *)
(* several mounts.  A directory is a table from names to what is there.    *)

\* mounts 1 and 2 are FAT volumes, mount 3 is an ext4 volume
MountKinds == <<"fat", "fat", "ext4">>

Mounts == 1..Len(MountKinds)

\* "a", "b"
MountNames == {<<97>>, <<98>>}

EmptyDir == [name \in MountNames |-> "none"]

NoMounts == [m \in Mounts |-> EmptyDir]

\* FatDirNode::rename on the root directory of mount s, with the root
\* directory of mount d as dst_dir.  The downcast fails for a directory
\* that is not a FatDirNode; dst_name is removed from dst_dir; the codec's
\* rename then moves the entry.  What the codec does with a directory of
\* another volume is not defined: codec_moves is whether it moves the entry.
FatDirNode_rename_between(ms, s, src_name, d, dst_name, codec_moves) ==
    LET renamed(removed) ==
            IF removed[s][src_name] = "none" THEN [res |-> "NotFound", ms |-> removed]
            ELSE IF s # d /\ ~codec_moves THEN [res |-> "Io", ms |-> removed]
            ELSE [res |-> "Ok",
                  ms |-> [m \in Mounts |-> [name \in MountNames |->
                            IF m = d /\ name = dst_name THEN removed[s][src_name]
                            ELSE IF m = s /\ name = src_name THEN "none"
                            ELSE removed[m][name]]]]
    IN  IF MountKinds[d] # "fat" THEN [res |-> "InvalidInput", ms |-> ms]
        ELSE renamed([ms EXCEPT ![d][dst_name] = "none"])

Move(op, res, src, dst) == [op |-> op, res |-> res, src |-> src, dst |-> dst]

NoMove == Move("none", "Ok", 0, 0)

-----------------------------------------------------------------------------
(* The parts of the program when they are not in use *)

ReadDirIdle == iter = NoReadDir /\ seen = <<>>

ShimIdle == fd_table = EmptyFdTable /\ sys = NoSys

CtxIdle == clones = NoClones /\ ctx_last = NoCtxCall

ErrIdle == code = 0 /\ lifted = "none"

LocksIdle == threads = NoThreads /\ owner = NoOwner /\ disk = EmptyDisk

SharedIdle == shared = NoShared /\ sh_last = NoSharedCall

InodesIdle == inodes = NoInodes /\ reported = NoReport

MountsIdle == mounts = NoMounts /\ mv_last = NoMove

OutsideFsIdle == ReadDirIdle /\ ShimIdle /\ CtxIdle /\ ErrIdle /\ LocksIdle
        /\ SharedIdle /\ InodesIdle /\ MountsIdle

-----------------------------------------------------------------------------
(* The state machine: one FAT mount, one FsContext made by new_root, and   *)
(* the std::fs-like calls made on it.                                      *)
(*                                                                         *)
(* `last` is the log of the latest call: what its paths resolved to before *)
(* it ran, and what it returned.  `created` holds the (directory, stored   *)
(* name) pair of the latest successful create of a regular file, while the *)
(* name was neither unlinked nor renamed nor replaced since; it is empty   *)
(* otherwise.  Both are history only: no call reads them.                  *)
(* The caller takes the result of a call before it makes the next one      *)
(* (Return), which blanks the log.                                         *)

Call(op, res, x, d1, n1, d2, n2, p, out) ==
    [op |-> op, res |-> res, x |-> x, d1 |-> d1, n1 |-> n1, d2 |-> d2, n2 |-> n2,
     p |-> p, out |-> out]

NoCall == Call("none", "Ok", NoNode, NoNode, NoName, NoNode, NoName, <<>>, <<>>)

\* no call on the tree has been made
FsIdle == last = NoCall /\ created = {}

ctx == FsContext(current_dir)

\* A call depends on a path only through what the path resolves to, so one
\* path is tried for each outcome of the resolution F.
OnePathEach(F(_)) ==
    {CHOOSE p \in Paths : F(p) = k : k \in {F(p) : p \in Paths}}

ByEntry == OnePathEach(LAMBDA p : resolve_inner(nodes, ctx, p))

ByParent == OnePathEach(LAMBDA p : resolve_parent(nodes, ctx, p))

\* The directory in use as current_dir, and those above it, stay where they
\* are: the calls that would move or free one of them are left out.
CwdChainKept(t) == \A n \in Ancestors(nodes, current_dir.node) : t[n] = nodes[n]

\* the pairs of S whose directory is still one in tree t
Tracked(t, S) == {c \in S : t[c[1]].kind = "dir"}

Init ==
    /\ nodes = EmptyTree
    /\ current_dir = RootEntry
    /\ last = NoCall
    /\ created = {}
    /\ OutsideFsIdle

\* d.create(name, node_type, mode) on the directory the path names
Create(path, node_type) ==
    \E where \in {resolve_nonexistent(nodes, ctx, path)},
       r \in {IF node_type = "Directory"
              THEN FsContext_create_dir(nodes, ctx, path)
              ELSE create_at(nodes, ctx, path, node_type)} :
        /\ nodes' = r.t
        /\ last' = Call("create", r.res, r.entry.node, where.dir.node, where.name,
                        NoNode, NoName, <<node_type>>, <<>>)
        /\ created' = IF r.res = "Ok" /\ node_type = "RegularFile"
                      THEN {<<r.entry.parent, r.entry.name>>}
                      ELSE created
        /\ UNCHANGED current_dir
        /\ UNCHANGED outside_fs

Remove(path, is_dir) ==
    \E target \in {resolve(nodes, ctx, path)},
       where \in {resolve_inner(nodes, ctx, path)},
       r \in {IF is_dir
              THEN FsContext_remove_dir(nodes, ctx, path)
              ELSE FsContext_remove_file(nodes, ctx, path)} :
        /\ CwdChainKept(r.t)
        /\ nodes' = r.t
        /\ last' = Call(IF is_dir THEN "remove_dir" ELSE "remove_file", r.res,
                        target.entry.node, target.entry.parent, target.entry.name,
                        where.dir.node, where.name, <<>>, <<>>)
        /\ created' = IF r.res = "Ok"
                      THEN Tracked(r.t, created \ {<<target.entry.parent, target.entry.name>>})
                      ELSE created
        /\ UNCHANGED current_dir
        /\ UNCHANGED outside_fs

Rename(from, to) ==
    \E moved \in {resolve(nodes, ctx, from)},
       src \in {resolve_parent(nodes, ctx, from)},
       dst \in {resolve_parent(nodes, ctx, to)},
       r \in {FsContext_rename(nodes, ctx, from, to)} :
        /\ CwdChainKept(r.t)
        /\ nodes' = r.t
        /\ last' = Call("rename", r.res, moved.entry.node,
                        src.dir.node, src.name, dst.dir.node, dst.name, <<>>, <<>>)
        /\ created' = Tracked(r.t, created \ ({<<src.dir.node, to_ascii_lowercase(src.name)>>}
                        \cup IF r.res = "Ok"
                             THEN {<<dst.dir.node, to_ascii_lowercase(dst.name)>>}
                             ELSE {}))
        /\ UNCHANGED current_dir
        /\ UNCHANGED outside_fs

Link(old_path, new_path) ==
    \E old \in {resolve(nodes, ctx, old_path)},
       new \in {resolve_nonexistent(nodes, ctx, new_path)},
       r \in {FsContext_link(nodes, ctx, old_path, new_path)} :
        /\ nodes' = r.t
        /\ last' = Call("link", r.res, old.entry.node, NoNode, NoName,
                        new.dir.node, new.name, <<>>, <<>>)
        /\ UNCHANGED <<current_dir, created>>
        /\ UNCHANGED outside_fs

Write(path, data) ==
    \E target \in {resolve(nodes, ctx, path)},
       r \in {FsContext_write(nodes, ctx, path, data)} :
        /\ nodes' = r.t
        /\ last' = Call("write", r.res, target.entry.node, NoNode, NoName,
                        NoNode, NoName, <<>>, <<>>)
        /\ UNCHANGED <<current_dir, created>>
        /\ UNCHANGED outside_fs

Canonicalize(path) ==
    \E target \in {resolve(nodes, ctx, path)},
       r \in {FsContext_canonicalize(nodes, ctx, path)} :
        /\ last' = Call("canonicalize", r.res, target.entry.node, target.entry.parent,
                        target.entry.name, NoNode, NoName, path, r.path)
        /\ UNCHANGED <<nodes, current_dir, created>>
        /\ UNCHANGED outside_fs

SetCurrentDir(path) ==
    \E target \in {resolve(nodes, ctx, path)} :
      \E r \in {IF target.res = "Ok"
                THEN FsContext_set_current_dir(nodes, ctx, target.entry)
                ELSE [res |-> target.res, ctx |-> ctx]} :
        /\ current_dir' = r.ctx.current_dir
        /\ last' = Call("set_current_dir", r.res, target.entry.node,
                        NoNode, NoName, NoNode, NoName, <<>>, <<>>)
        /\ UNCHANGED <<nodes, created>>
        /\ UNCHANGED outside_fs

\* the caller is done with the result of the latest call
Return ==
    /\ last # NoCall
    /\ last' = NoCall
    /\ UNCHANGED <<nodes, current_dir, created>>
    /\ UNCHANGED outside_fs

Idle == last = NoCall

Next ==
    \/ Idle /\ \E path \in ByEntry, node_type \in NodeTypes : Create(path, node_type)
    \/ Idle /\ \E path \in ByEntry, is_dir \in BOOLEAN : Remove(path, is_dir)
    \/ Idle /\ \E from \in ByParent, to \in ByParent : Rename(from, to)
    \/ Idle /\ \E old_path \in ByEntry, new_path \in ByEntry : Link(old_path, new_path)
    \/ Idle /\ \E path \in ByEntry, data \in Contents \ {<<>>} : Write(path, data)
    \/ Idle /\ \E path \in Paths : Canonicalize(path)
    \/ Idle /\ \E path \in ByEntry : SetCurrentDir(path)
    \/ Return

Spec == Init /\ [][Next]_vars

-----------------------------------------------------------------------------
(* The claims.  A claim about what a call does to the tree is a formula    *)
(* about the step that makes the call: unprimed is the tree before it,     *)
(* primed the tree after it, and last' what the call was and returned.     *)

\* the rename just made had its source present (node last'.x, found under
\* name n1 of directory d1) and the parent d2 of its destination resolved
RenameOfPresent ==
    /\ last'.op = "rename"
    /\ last'.x # NoNode
    /\ last'.d1 # NoNode
    /\ last'.d2 # NoNode

\* source and destination of the rename just made are two names: other
\* directories, or names that differ by more than case
DistinctNames == last'.d1 # last'.d2 \/ ~eq_name(last'.n1, last'.n2)

\* C1: a rename of a directory D to a destination whose parent directory is
\* D itself or a directory below D fails with InvalidInput and leaves the
\* tree as it was.  D may be the root, which has no parent to rename it in.
C1_RenameBelowItself ==
    [][(/\ last'.op = "rename"
        /\ last'.x # NoNode
        /\ nodes[last'.x].kind = "dir"
        /\ last'.d2 # NoNode
        /\ last'.x \in Ancestors(nodes, last'.d2))
       => (last'.res = "InvalidInput" /\ nodes' = nodes)]_vars

\* a directory other than the root was refused as the new home of a
\* directory above it
C1_Witness ==
    /\ last.op = "rename"
    /\ last.res = "InvalidInput"
    /\ last.x \notin {NoNode, RootNode}
    /\ nodes[last.x].kind = "dir"
    /\ last.d2 # last.x
    /\ last.x \in Ancestors(nodes, last.d2)

\* C2: a rename either performs the whole rename or changes nothing; with
\* the source name absent it fails NotFound and an entry already at the
\* destination name is still there with its contents.
C2_RenameAtomic ==
    [][last'.op = "rename" =>
        /\ last'.res # "Ok" => nodes' = nodes
        /\ (last'.d1 # NoNode /\ last'.d2 # NoNode /\ last'.x = NoNode) =>
                last'.res = "NotFound"]_vars

\* C3 as stated: with a present and b another name, lookup(b) after
\* rename(a, b) succeeds exactly if the rename succeeded.
C3_LookupIffRenamed ==
    [][(RenameOfPresent /\ DistinctNames)
       => (ff_find(nodes', last'.d2, last'.n2) # NoNode <=> last'.res = "Ok")]_vars

\* C3: with a present and b another name, after a successful rename(a, b)
\* lookup(b) finds the node a referred to, unchanged in type and contents,
\* lookup(a) fails NotFound, and a node that b referred to before is gone;
\* when b was absent before the call, lookup(b) succeeds afterwards exactly
\* if the rename succeeded.
C3_RenameThenLookup ==
    [][(RenameOfPresent /\ DistinctNames)
       => \A old \in {ff_find(nodes, last'.d2, last'.n2)},
             new \in {FatDirNode_lookup(nodes', last'.d2, last'.n2)} :
            /\ last'.res = "Ok" =>
                /\ new.res = "Ok"
                /\ new.entry.node = last'.x
                /\ nodes'[last'.x].kind = nodes[last'.x].kind
                /\ nodes'[last'.x].data = nodes[last'.x].data
                /\ FatDirNode_lookup(nodes', last'.d1, last'.n1).res = "NotFound"
                /\ old # NoNode => nodes'[old].kind = "none"
            /\ old = NoNode => (new.res = "Ok" <=> last'.res = "Ok")]_vars

\* a rename replaced the entry that was at the destination name
C3_Witness ==
    /\ last.op = "rename"
    /\ last.res = "Ok"
    /\ last.x # NoNode
    /\ ff_find(nodes, last.d2, last.n2) = last.x
    /\ \E n \in NodeIds \ {RootNode, last.x} : nodes[n].kind = "none"
    /\ created = {}

\* the parent of a directory, the root when it has none
ParentOrRoot(e) == IF e.parent = NoNode THEN RootNode ELSE e.parent

\* the canonicalize just returned resolved a path that ends in ParentDir
EndsInParentDir ==
    /\ last.op = "canonicalize"
    /\ last.res = "Ok"
    /\ last.p[Len(last.p)].c = "ParentDir"

\* C4: a ParentDir component replaces the directory reached so far with its
\* parent, and with the root only when it has none: a path that ends in
\* ".." resolves to the parent of what the path before the ".." resolves
\* to (the current directory when ".." is the whole path).
C4_ParentDir ==
    EndsInParentDir =>
        \A before \in {IF Len(last.p) = 1
                       THEN [res |-> "Ok", entry |-> current_dir]
                       ELSE resolve(nodes, ctx, SubSeq(last.p, 1, Len(last.p) - 1))} :
            (before.res = "Ok" /\ nodes[before.entry.node].kind = "dir")
                => last.x = ParentOrRoot(before.entry)

C6_CreatedIsFound ==
    \A c \in created :
        \A found \in {FatDirNode_lookup(nodes, c[1], c[2])} :
            /\ found.res = "Ok"
            /\ found.entry.parent = c[1]
            /\ found.entry.name = c[2]
            /\ nodes[found.entry.node].kind = "file"

C8_Removed ==
    [][/\ (last'.op \in {"remove_file", "remove_dir"} /\ last'.res = "Ok") =>
            /\ FatDirNode_lookup(nodes', last'.d1, last'.n1).res = "NotFound"
            /\ \A n \in NodeIds \ {last'.x} : nodes'[n] = nodes[n]
       /\ \A d \in NodeIds, name \in Names :
            (/\ nodes[d].kind = "dir"
             /\ ff_find(nodes, d, name) = NoNode
             /\ ff_find(nodes', d, name) # NoNode)
            => (last'.op \in {"create", "rename"} /\ last'.res = "Ok")]_vars

\* a file was removed from a directory that keeps another entry
C8_Witness ==
    /\ last.op = "remove_file"
    /\ last.res = "Ok"
    /\ Children(nodes, last.d1) # {}

-----------------------------------------------------------------------------
(* Reading a directory: one ReadDir made by FsContext::read_dir and the    *)
(* calls of next() on it.  `seen` is the sequence of what next() returned. *)

MaxEntries == 257

MaxCallsAfterEnd == 2

\* directory sizes next to the multiples of BUF_SIZE
DirSizes == {n \in 0..MaxEntries : n % BUF_SIZE \in {0, 1, BUF_SIZE - 1}}

\* where the entry that cannot be read is, 0 for nowhere
BadAt(n) == {0} \cup ({1, 2, BUF_SIZE, BUF_SIZE + 1, n} \cap 1..n)

InitReadDir ==
    /\ \E n \in DirSizes : \E bad \in BadAt(n) :
            iter = FsContext_read_dir([n |-> n, bad |-> bad])
    /\ seen = <<>>
    /\ nodes = EmptyTree
    /\ current_dir = RootEntry
    /\ FsIdle /\ ShimIdle /\ CtxIdle /\ ErrIdle /\ LocksIdle
    /\ SharedIdle /\ InodesIdle /\ MountsIdle

CallNext ==
    /\ Len(seen) < iter.dir.n + MaxCallsAfterEnd
    /\ \E r \in {ReadDir_next(iter)} :
        /\ iter' = r.it
        /\ seen' = Append(seen, r.ret)
    /\ UNCHANGED outside_read_dir

NextReadDir == CallNext

SpecReadDir == InitReadDir /\ [][NextReadDir]_vars

\* C11: from a directory that is not modified and whose entries can all be
\* read, next() returns every entry once, in backend order, whatever the
\* number of refills; the buffer holds at most BUF_SIZE entries, also when
\* the next call has just refilled it and has not yet taken one; after the
\* last entry next() returns None, and None again on every later call.
C11_EveryEntryOnce ==
    /\ Len(iter.buf) <= BUF_SIZE
    /\ (iter.buf = <<>> /\ ~iter.ended) =>
        \A r \in {FatDirNode_read_dir(iter.dir, iter.offset,
                                      [buf |-> <<>>, offset |-> iter.offset])} :
            Len(r.v.buf) <= BUF_SIZE
    /\ iter.dir.bad = 0 =>
        \A i \in 1..Len(seen) :
            seen[i] = IF i <= iter.dir.n THEN SomeOk(i) ELSE None

\* a directory of more than two buffers was read to its end and next() was
\* called twice more
C11_Witness ==
    /\ iter.dir.bad = 0
    /\ iter.dir.n > 2 * BUF_SIZE
    /\ Len(seen) = iter.dir.n + 2
    /\ seen[Len(seen)] = None
    /\ iter.ended

-----------------------------------------------------------------------------
(* The POSIX shim: syscalls on the process's FD table and FS_CONTEXT, over *)
(* a small tree.  FS_CONTEXT is FsContext(current_dir).  `sys` records the *)
(* last syscall and is blanked by a step of its own.                       *)

MaxSize == 6

\* the address of a buffer of the caller
BufAddr == 4096

\* the byte of memory no syscall has stored to
Untouched == 255

FreshMem == [i \in 1..(MaxSize + 1) |-> Untouched]

\* "/b" holding one byte
TreeWithFile ==
    [ff_create(EmptyTree, RootNode, <<98>>, "file").t EXCEPT ![2].data = <<1>>]

\* "/a" and "/a/b" holding one byte
TreeWithDir ==
    [ff_create(ff_create(EmptyTree, RootNode, <<97>>, "dir").t, 2, <<98>>, "file").t
        EXCEPT ![3].data = <<1>>]

FlagSets ==
    {{}, {O_APPEND}, {O_TRUNC}, {O_CREAT}, {O_EXEC}, {O_EXCL}, {O_DIRECTORY},
     {O_CREAT, O_EXCL},
     {O_APPEND, O_TRUNC, O_CREAT, O_EXEC, O_EXCL, O_DIRECTORY}}

RECURSIVE Sum(_)
Sum(S) == IF S = {} THEN 0 ELSE LET x == CHOOSE y \in S : TRUE IN x + Sum(S \ {x})

\* every access mode alone, and the sets of flags with read-write access
\* and with write-only access
OpenFlags ==
    0..3 \cup {O_RDWR + Sum(S) : S \in FlagSets} \cup {O_WRONLY + O_CREAT + O_EXCL}

OpenatFlags ==
    {O_RDONLY, O_RDONLY + O_DIRECTORY, O_RDWR + O_CREAT, O_WRONLY + O_CREAT + O_EXCL}

\* the new names of sys_rename: "b", and a pointer that is not a string
NewPathArgs == {<<Normal(<<98>>)>>, NullPtr}

\* "b", "a", "/", "a/b", and a pointer that is not a string
PathArgs ==
    {<<Normal(<<98>>)>>, <<Normal(<<97>>)>>, <<Special("RootDir")>>,
     <<Normal(<<97>>), Normal(<<98>>)>>, NullPtr}

FdArgs == Fds \cup {MaxFd}

InitShim ==
    /\ \/ nodes = TreeWithFile /\ current_dir = RootEntry
       \/ nodes = TreeWithDir /\ current_dir \in {RootEntry, Entry(2, RootNode, <<97>>)}
    /\ fd_table = EmptyFdTable
    /\ sys = NoSys
    /\ FsIdle /\ ReadDirIdle /\ CtxIdle /\ ErrIdle /\ LocksIdle
    /\ SharedIdle /\ InodesIdle /\ MountsIdle

SysIdle == sys = NoSys

\* the state a syscall leaves
Leaves(r) ==
    /\ fd_table' = r.ft
    /\ nodes' = r.t
    /\ current_dir' = r.fs.current_dir
    /\ UNCHANGED outside_shim

\* the node a path argument names
Named(path) == IF path = NullPtr THEN NoNode ELSE resolve(nodes, ctx, path).entry.node

\* the node a path argument names from the directory of dirfd
NamedAt(dirfd, path) ==
    IF dirfd = AT_FDCWD THEN Named(path)
    ELSE IF path = NullPtr \/ Directory_from_fd(fd_table, dirfd).err # "Ok" THEN NoNode
    ELSE resolve(nodes, FsContext(fd_table[dirfd].entry), path).entry.node

SysOpen(filename, flags) ==
    /\ SysIdle
    /\ \E r \in {sys_open(fd_table, nodes, ctx, filename, flags)} :
        /\ Leaves(r)
        /\ sys' = Sys("open", r.ret, AT_FDCWD, flags, filename = NullPtr, Named(filename), <<>>)

SysOpenat(dirfd, name, flags) ==
    /\ SysIdle
    /\ \E r \in {sys_openat(fd_table, nodes, ctx, dirfd, name, flags)} :
        /\ Leaves(r)
        /\ sys' = Sys("openat", r.ret, dirfd, flags, name = NullPtr, NamedAt(dirfd, name),
                      <<>>)

\* cursors are followed up to one byte past the longest file
MaxPos == MaxDataLen + 1

SysLseek(fd, offset, whence) ==
    /\ SysIdle
    /\ \E r \in {sys_lseek(fd_table, nodes, ctx, fd, offset, whence)} :
        /\ r.ret <= MaxPos
        /\ Leaves(r)
        /\ sys' = Sys("lseek", r.ret, fd, whence, FALSE, NoNode, <<>>)

SysStat(path, buf_is_null) ==
    /\ SysIdle
    /\ \E r \in {sys_stat(fd_table, nodes, ctx, path, buf_is_null)} :
        /\ Leaves(r)
        /\ sys' = Sys("stat", r.ret, AT_FDCWD, 0, path = NullPtr \/ buf_is_null,
                      Named(path), r.out)

SysFstat(fd, buf_is_null) ==
    /\ SysIdle
    /\ \E r \in {sys_fstat(fd_table, nodes, ctx, fd, buf_is_null)} :
        /\ Leaves(r)
        /\ sys' = Sys("fstat", r.ret, fd, 0, buf_is_null, NoNode, r.out)

\* the nodes of the open files and directories stay where they are
OpenNodesKept(t) ==
    \A fd \in Fds : fd_table[fd].kind # "none" =>
        \A n \in Ancestors(nodes, fd_table[fd].entry.node) : t[n] = nodes[n]

SysRename(old, new) ==
    /\ SysIdle
    /\ \E r \in {sys_rename(fd_table, nodes, ctx, old, new)} :
        /\ CwdChainKept(r.t)
        /\ OpenNodesKept(r.t)
        /\ Leaves(r)
        /\ sys' = Sys("rename", r.ret, AT_FDCWD, 0, old = NullPtr \/ new = NullPtr,
                      Named(old), <<>>)

SysGetcwd(buf, size) ==
    /\ SysIdle
    /\ \E r \in {sys_getcwd(fd_table, nodes, ctx, buf, size, FreshMem)} :
        /\ Leaves(r)
        /\ sys' = Sys("getcwd", r.ret, AT_FDCWD, size, buf = 0, NoNode, r.out)

SysReturn ==
    /\ ~SysIdle
    /\ sys' = NoSys
    /\ UNCHANGED <<nodes, current_dir, fd_table, outside_shim>>

NextShim ==
    \/ \E p \in PathArgs, flags \in OpenFlags : SysOpen(p, flags)
    \/ \E dirfd \in FdArgs \cup {AT_FDCWD}, p \in PathArgs, flags \in OpenatFlags :
            SysOpenat(dirfd, p, flags)
    \/ \E fd \in FdArgs, offset \in -1..1, whence \in 0..3 : SysLseek(fd, offset, whence)
    \/ \E p \in PathArgs, null \in BOOLEAN : SysStat(p, null)
    \/ \E fd \in FdArgs, null \in BOOLEAN : SysFstat(fd, null)
    \/ \E old \in PathArgs, new \in NewPathArgs : SysRename(old, new)
    \/ \E buf \in {0, BufAddr}, size \in 0..MaxSize : SysGetcwd(buf, size)
    \/ SysReturn

SpecShim == InitShim /\ [][NextShim]_vars

\* the fd of the last syscall is in the FD table, as a FileLike of this kind
FdIs(ft, fd, kind) == fd \in Fds /\ ft[fd].kind = kind

\* C13: sys_lseek with a whence other than 0, 1, 2 fails EINVAL; with a
\* valid whence, an fd that is a Directory fails EBADF and an fd that is
\* not in the FD table fails EBADF; a failing sys_lseek changes no cursor.
C13_LseekErrors ==
    [][sys'.op = "lseek" =>
        /\ sys'.arg \notin {0, 1, 2} => sys'.ret = -LinuxError("EINVAL")
        /\ (sys'.arg \in {0, 1, 2} /\ FdIs(fd_table, sys'.fd, "Directory"))
                => sys'.ret = -LinuxError("EBADF")
        /\ (sys'.arg \in {0, 1, 2} /\ ~(sys'.fd \in Fds /\ fd_table[sys'.fd].kind # "none"))
                => sys'.ret = -LinuxError("EBADF")
        /\ sys'.ret < 0 => fd_table' = fd_table]_vars

\* the syscalls of the shim that return an integer
IntSyscalls == {"open", "openat", "lseek", "stat", "fstat", "rename"}

\* the errors a syscall of the shim can fail with
ShimErrnos == TableErrnos \cup {"EBADF", "EMFILE"}

\* C14: a syscall that returns an integer returns, when it fails, the
\* negated errno of the failure: -EFAULT when a pointer it was given is
\* invalid, and in every case the negation of an errno the shim maps to.
C14_NegatedErrno ==
    [][sys'.op \in IntSyscalls =>
        /\ sys'.bad => sys'.ret = -LinuxError("EFAULT")
        /\ sys'.ret < 0 => \E e \in ShimErrnos : sys'.ret = -LinuxError(e)]_vars

\* C15: sys_getcwd with a buffer of at least len(cwd)+1 bytes stores the
\* bytes of the current directory's absolute path and one NUL byte after
\* them, and returns the buffer; with a smaller buffer it fails ERANGE and
\* stores nothing; it never stores at an index >= size.
C15_Getcwd ==
    [][(sys'.op = "getcwd" /\ ~sys'.bad) =>
        \A cwd \in {path_bytes(absolute_path(nodes, current_dir))} :
            /\ \A i \in (sys'.arg + 1)..(MaxSize + 1) : sys'.out[i] = Untouched
            /\ IF sys'.arg >= Len(cwd) + 1
               THEN /\ sys'.ret = BufAddr
                    /\ SubSeq(sys'.out, 1, Len(cwd)) = cwd
                    /\ sys'.out[Len(cwd) + 1] = 0
                    /\ \A i \in (Len(cwd) + 2)..(MaxSize + 1) : sys'.out[i] = Untouched
               ELSE /\ sys'.ret = -LinuxError("ERANGE")
                    /\ sys'.out = FreshMem]_vars

\* sys_getcwd stored "/a" and the NUL byte in a buffer of 3 bytes, and
\* failed for a buffer of 2 bytes
C15_Witness ==
    /\ sys.op = "getcwd"
    /\ current_dir # RootEntry
    /\ \/ sys.arg = 3 /\ sys.ret = BufAddr /\ sys.out[3] = 0
       \/ sys.arg = 2 /\ sys.ret = -LinuxError("ERANGE")

-----------------------------------------------------------------------------
(* FsContexts: FS_CONTEXT, its clones and the contexts derived from them,  *)
(* over the tree "/a", "/a/b" and an FD table that holds the directory     *)
(* "/a" as fd 0 and the file "/a/b" as fd 1.                               *)

DirA == Entry(2, RootNode, <<97>>)

FileB == Entry(3, 2, <<98>>)

FdTableWithDir ==
    add_file_like(add_file_like(EmptyFdTable, Opened("Directory", TreeWithDir, DirA).f).ft,
                  Opened("File", TreeWithDir, FileB).f).ft

EntryArgs == {RootEntry, DirA, FileB}

CtxIds == 0..MaxClones

\* the FsContext with this id
CtxOf(i) == IF i = 0 THEN ctx ELSE clones[i]

Live(i) == CtxOf(i) # NoCtx

\* context i becomes c
Put(i, c) ==
    IF i = 0 THEN current_dir' = c.current_dir /\ clones' = clones
    ELSE current_dir' = current_dir /\ clones' = [clones EXCEPT ![i] = c]

FreeCtxIds == {i \in 1..MaxClones : ~Live(i)}

InitCtx ==
    /\ nodes = TreeWithDir
    /\ current_dir = RootEntry
    /\ fd_table = FdTableWithDir
    /\ clones = NoClones
    /\ ctx_last = NoCtxCall
    /\ sys = NoSys
    /\ FsIdle /\ ReadDirIdle /\ ErrIdle /\ LocksIdle
    /\ SharedIdle /\ InodesIdle /\ MountsIdle

CtxClone(i) ==
    /\ Live(i)
    /\ FreeCtxIds # {}
    /\ \E j \in {Min(FreeCtxIds)} :
        /\ Put(j, FsContext_clone(CtxOf(i)))
        /\ ctx_last' = CtxCall("clone", i, AT_FDCWD, NoEntry, "Ok", j)
    /\ UNCHANGED outside_ctx

CtxSetCurrentDir(i, dir) ==
    /\ Live(i)
    /\ \E r \in {FsContext_set_current_dir(nodes, CtxOf(i), dir)} :
        /\ Put(i, r.ctx)
        /\ ctx_last' = CtxCall("set_current_dir", i, AT_FDCWD, dir, r.res, i)
    /\ UNCHANGED outside_ctx

CtxWithCurrentDir(i, dir) ==
    /\ Live(i)
    /\ FreeCtxIds # {}
    /\ \E r \in {FsContext_with_current_dir(nodes, CtxOf(i), dir)}, j \in {Min(FreeCtxIds)} :
        /\ IF r.res = "Ok" THEN Put(j, r.ctx) ELSE UNCHANGED <<current_dir, clones>>
        /\ ctx_last' = CtxCall("with_current_dir", i, AT_FDCWD, dir, r.res,
                               IF r.res = "Ok" THEN j ELSE 0)
    /\ UNCHANGED outside_ctx

\* a closure for with_fs that changes the current directory of the context
\* it is given
Chdir(c, dir) ==
    LET changed(r) ==
            [err |-> IF r.res = "Ok" THEN "Ok" ELSE errno(r.res),
             val |-> NoFile, t |-> nodes, ctx |-> r.ctx]
    IN  changed(FsContext_set_current_dir(nodes, c, dir))

CtxWithFs(dirfd, dir) ==
    /\ \E w \in {with_fs(fd_table, nodes, ctx, dirfd, [c \in FsContexts |-> Chdir(c, dir)])} :
        /\ current_dir' = w.fs.current_dir
        /\ ctx_last' = CtxCall("with_fs", 0, dirfd, dir, w.r.err, 0)
    /\ UNCHANGED <<clones, outside_ctx>>

\* a context made from another one is dropped
CtxDrop(i) ==
    /\ i # 0
    /\ Live(i)
    /\ clones' = [clones EXCEPT ![i] = NoCtx]
    /\ ctx_last' = CtxCall("drop", i, AT_FDCWD, NoEntry, "Ok", 0)
    /\ UNCHANGED <<current_dir, outside_ctx>>

NextCtx ==
    \/ \E i \in CtxIds : CtxClone(i)
    \/ \E i \in CtxIds, dir \in EntryArgs : CtxSetCurrentDir(i, dir)
    \/ \E i \in CtxIds, dir \in EntryArgs : CtxWithCurrentDir(i, dir)
    \/ \E dirfd \in FdArgs \cup {AT_FDCWD}, dir \in EntryArgs : CtxWithFs(dirfd, dir)
    \/ \E i \in CtxIds : CtxDrop(i)

SpecCtx == InitCtx /\ [][NextCtx]_vars

\* the FsContext with this id after the step
CtxAfter(i) == IF i = 0 THEN FsContext(current_dir') ELSE clones'[i]

\* the contexts other than i are as they were
OthersKept(i) == \A j \in CtxIds \ {i} : CtxAfter(j) = CtxOf(j)

\* C18: set_current_dir on an FsContext changes the current_dir of that
\* context only, and no root_dir; clone and with_current_dir make a new
\* context and leave every other one, the receiver included, as it was;
\* with_fs with a dirfd other than AT_FDCWD leaves FS_CONTEXT as it was
\* whatever its closure does; set_current_dir and with_current_dir on an
\* entry that is not a directory fail NotADirectory and change nothing.
C18_ContextsIndependent ==
    [][/\ ctx_last'.op = "set_current_dir" =>
            /\ OthersKept(ctx_last'.on)
            /\ CtxAfter(ctx_last'.on).root_dir = CtxOf(ctx_last'.on).root_dir
            /\ IF nodes[ctx_last'.dir.node].kind = "dir"
               THEN ctx_last'.res = "Ok" /\ CtxAfter(ctx_last'.on).current_dir = ctx_last'.dir
               ELSE ctx_last'.res = "NotADirectory" /\ CtxAfter(ctx_last'.on) = CtxOf(ctx_last'.on)
       /\ ctx_last'.op = "with_current_dir" =>
            IF nodes[ctx_last'.dir.node].kind = "dir"
            THEN /\ ctx_last'.res = "Ok"
                 /\ OthersKept(ctx_last'.made)
                 /\ CtxAfter(ctx_last'.made) =
                        [root_dir |-> CtxOf(ctx_last'.on).root_dir, current_dir |-> ctx_last'.dir]
            ELSE /\ ctx_last'.res = "NotADirectory"
                 /\ <<current_dir, clones>>' = <<current_dir, clones>>
       /\ ctx_last'.op = "clone" =>
            /\ OthersKept(ctx_last'.made)
            /\ CtxAfter(ctx_last'.made) = CtxOf(ctx_last'.on)
       /\ (ctx_last'.op = "with_fs" /\ ctx_last'.fd # AT_FDCWD) =>
            <<current_dir, clones>>' = <<current_dir, clones>>]_vars

\* FS_CONTEXT is in "/" while a clone of it is in "/a", after a
\* set_current_dir on one of them
C18_Witness ==
    /\ ctx_last.op = "set_current_dir"
    /\ ctx_last.res = "Ok"
    /\ \E i \in 1..MaxClones : clones[i] # NoCtx /\ clones[i].current_dir # current_dir

-----------------------------------------------------------------------------
(* Error translation of the ext4 adapter: a code of the codec is lifted    *)
(* once.                                                                   *)

MaxErrCode == 140

\* the codes below, in and above the range of LinuxError
CodecCodes == -2..MaxErrCode

InitErr ==
    /\ code \in CodecCodes
    /\ lifted = "none"
    /\ nodes = EmptyTree
    /\ current_dir = RootEntry
    /\ FsIdle /\ ReadDirIdle /\ ShimIdle /\ CtxIdle /\ LocksIdle
    /\ SharedIdle /\ InodesIdle /\ MountsIdle

Lift ==
    /\ lifted = "none"
    /\ lifted' = ext4_into_vfs_err(code)
    /\ UNCHANGED <<code, outside_err>>

NextErr == Lift

SpecErr == InitErr /\ [][NextErr]_vars

\* the errnos that into_vfs_err of the ext4 adapter has an arm for
Ext4Arms ==
    {"EADDRINUSE", "EEXIST", "EFAULT", "ECONNREFUSED", "ECONNRESET", "ENOTEMPTY",
     "EINVAL", "EIO", "EISDIR", "ENOMEM", "ENOTDIR", "ENOTCONN", "ENOENT", "EACCES",
     "EBUSY", "ENOSPC", "ENOSYS", "EAGAIN"}

-----------------------------------------------------------------------------
(* Threads in syscalls.  Each thread makes MaxCalls syscalls, one step at  *)
(* a time; a step that acquires a mutex waits until the mutex is free.     *)

InitLocks ==
    /\ threads = [t \in Threads |-> [NoThread EXCEPT !.calls = MaxCalls]]
    /\ owner = NoOwner
    /\ disk = EmptyDisk
    /\ nodes = EmptyTree
    /\ current_dir = RootEntry
    /\ FsIdle /\ ReadDirIdle /\ ShimIdle /\ CtxIdle /\ ErrIdle
    /\ SharedIdle /\ InodesIdle /\ MountsIdle

\* thread t enters a syscall
Enter(t, op) ==
    /\ threads[t].prog = <<>>
    /\ threads[t].calls > 0
    /\ threads' = [threads EXCEPT ![t] =
            [@ EXCEPT !.op = op, !.prog = Steps(op, t), !.calls = @ - 1,
                      !.at = NoStep, !.ctx_acq = 0]]
    /\ UNCHANGED <<owner, disk, outside_locks>>

\* the step thread t is at
AtStep(t, k) == threads[t].prog # <<>> /\ Head(threads[t].prog).k = k

Stepped(t) == [threads[t] EXCEPT !.prog = Tail(@), !.at = Head(threads[t].prog)]

Acquire(t) ==
    /\ AtStep(t, "acq")
    /\ \E s \in {Head(threads[t].prog)} :
        /\ owner[Mutex(s.m, s.f)] = 0
        /\ owner' = [owner EXCEPT ![Mutex(s.m, s.f)] = t]
        /\ threads' = [threads EXCEPT ![t] =
                [Stepped(t) EXCEPT !.ctx_acq = IF s.m = "FS_CONTEXT" THEN @ + 1 ELSE @]]
    /\ UNCHANGED <<disk, outside_locks>>

Release(t) ==
    /\ AtStep(t, "rel")
    /\ \E s \in {Head(threads[t].prog)} :
        owner' = [owner EXCEPT ![Mutex(s.m, s.f)] = 0]
    /\ threads' = [threads EXCEPT ![t] = Stepped(t)]
    /\ UNCHANGED outside_locks
    /\ UNCHANGED disk

\* the work of a step: a write reads the next free block, advances it, and
\* stores its data, the id of the thread, at the cursor of its file
Work(t) ==
    /\ AtStep(t, "io")
    /\ \E s \in {Head(threads[t].prog)} :
        CASE s.m = "alloc" ->
                /\ threads' = [threads EXCEPT ![t] = [Stepped(t) EXCEPT !.reg = disk.next_free]]
                /\ disk' = disk
          [] s.m = "take" ->
                /\ threads' = [threads EXCEPT ![t] = Stepped(t)]
                /\ disk' = [disk EXCEPT !.next_free = threads[t].reg + 1]
          [] s.m = "store" ->
                /\ threads' = [threads EXCEPT ![t] =
                        [Stepped(t) EXCEPT !.written = Append(@, t)]]
                /\ disk' = [disk EXCEPT !.block[threads[t].reg] = t,
                                        !.chain[t] = Append(@, threads[t].reg),
                                        !.cursor[t] = @ + 1]
          [] OTHER ->
                /\ threads' = [threads EXCEPT ![t] = Stepped(t)]
                /\ disk' = disk
    /\ UNCHANGED <<owner, outside_locks>>

ThreadNext(t) ==
    \/ \E op \in Syscalls : Enter(t, op)
    \/ Acquire(t)
    \/ Release(t)
    \/ Work(t)

NextLocks ==
    \/ \E t \in Threads, op \in Syscalls : Enter(t, op)
    \/ \E t \in Threads : Acquire(t)
    \/ \E t \in Threads : Release(t)
    \/ \E t \in Threads : Work(t)

SpecLocks == InitLocks /\ [][NextLocks]_vars

\* every thread is scheduled again and again
SpecLocksFair == SpecLocks /\ \A t \in Threads : WF_vars(ThreadNext(t))

\* the bytes of the file of thread t
FileContent(t) == [i \in 1..Len(disk.chain[t]) |-> disk.block[disk.chain[t][i]]]

AllReturned == \A t \in Threads : threads[t].prog = <<>> /\ threads[t].calls = 0

\* C16: threads that write to their own files through their own fds all
\* return from their syscalls, and the content and the cursor of each
\* file are those of the writes of its thread in their order, whatever the
\* other thread wrote meanwhile.
C16_WritesLinearisable ==
    /\ [](\A t \in Threads :
            /\ FileContent(t) = threads[t].written
            /\ disk.cursor[t] = Len(threads[t].written))
    /\ <>AllReturned

\* thread 1 is in the middle of a write, under the mutex of the filesystem,
\* while thread 2, which has written before, waits for that mutex with the
\* mutex of its own file held
C16_Witness ==
    /\ threads[1].at = Io("alloc")
    /\ threads[2].written # <<>>
    /\ AtStep(2, "acq")
    /\ Head(threads[2].prog) = Acq(FsMutex)
    /\ owner[FileMutex(2)] = 2

\* the work on the file a syscall has resolved or looked up
HandleIo == {"stat", "seek", "read", "alloc", "take", "store"}

\* C17: a syscall acquires FS_CONTEXT at most once and has released it
\* when it reads, writes or stats the file it resolved; no syscall holds
\* the mutex of the FD table when it acquires the mutex of a filesystem or
\* of a file.
C17_LockingDiscipline ==
    \A t \in Threads :
        /\ threads[t].ctx_acq <= 1
        /\ (threads[t].at.k = "io" /\ threads[t].at.m \in HandleIo)
                => owner[FS_CONTEXT] # t
        /\ (threads[t].at.k = "acq" /\ threads[t].at.m \in {"Filesystem", "File"})
                => owner[FD_TABLE] # t

\* thread 1 in sys_stat reads the metadata of the file it opened while
\* thread 2 holds FS_CONTEXT
C17_Witness ==
    /\ threads[1].op = "stat"
    /\ threads[1].at = Io("stat")
    /\ owner[FS_CONTEXT] = 2

-----------------------------------------------------------------------------
(* The stat syscalls *)

\* the stat of node n: its type and its size
NodeStat(t, n) == [st_mode |-> t[n].kind, st_size |-> Len(t[n].data)]

\* C21: sys_stat of a path that names a node, a regular file or a
\* directory, and sys_fstat of an fd that is in the FD table, a File or a
\* Directory, return 0 and store the stat of the node in buf.
C21_StatFills ==
    [][/\ (sys'.op = "stat" /\ ~sys'.bad /\ sys'.x # NoNode)
            => /\ sys'.ret = 0
               /\ sys'.out = <<NodeStat(nodes, sys'.x)>>
       /\ (sys'.op = "fstat" /\ ~sys'.bad /\ sys'.fd \in Fds
                /\ fd_table[sys'.fd].kind # "none")
            => /\ sys'.ret = 0
               /\ sys'.out = <<NodeStat(nodes, fd_table[sys'.fd].entry.node)>>]_vars

-----------------------------------------------------------------------------
(* Paths without a final file name *)

RootPath == <<Special("RootDir")>>

\* the parent and the name that resolve_parent gives for path p lead back
\* to the directory d that p resolves to
LeadsTo(rp, d) ==
    /\ rp.res = "Ok"
    /\ rp.dir = entry_parent(nodes, d)
    /\ \E found \in {FatDirNode_lookup(nodes, rp.dir.node, rp.name)} :
        found.res = "Ok" /\ found.entry.node = d.node

-----------------------------------------------------------------------------
(* A rename of an entry to its own name *)

\* C26: a rename of an entry that is there to its own name in the same
\* directory, or to a name that differs from it only in the case of its
\* letters, keeps the entry: whatever the call returns, the name is still
\* looked up and the data of the node is as before.
C26_SelfRenameKeeps ==
    [][(/\ last'.op = "rename"
        /\ last'.x # NoNode
        /\ last'.n1 # NoName
        /\ last'.d1 = last'.d2
        /\ eq_name(last'.n1, last'.n2))
            => \E found \in {FatDirNode_lookup(nodes', last'.d1, last'.n1)} :
                /\ found.res = "Ok"
                /\ nodes'[found.entry.node].data = nodes[last'.x].data]_vars

-----------------------------------------------------------------------------
(* The test of FsContext::rename for a move of a directory below itself *)

\* C27: a rename of an entry that is there, between two directories that
\* resolve, fails InvalidInput only when the entry is the directory of the
\* destination or a directory above it; a move from a directory P into a
\* directory below P that is not inside the entry, to a name that is free,
\* succeeds.
C27_AncestorCheckExact ==
    [][RenameOfPresent =>
        /\ last'.res = "InvalidInput" => last'.x \in Ancestors(nodes, last'.d2)
        /\ (/\ last'.d1 # last'.d2
            /\ last'.d1 \in Ancestors(nodes, last'.d2)
            /\ last'.x \notin Ancestors(nodes, last'.d2)
            /\ ff_find(nodes, last'.d2, last'.n2) = NoNode)
                => last'.res = "Ok"]_vars

-----------------------------------------------------------------------------
(* The count and the offsets of FatDirNode::read_dir *)

\* C28: the count FatDirNode::read_dir returns is the number of entries it
\* handed to the visitor in the call, the one the visitor answered with
\* "stop" included, and the k-th of them came with the offset of the call
\* plus k: it is the entry at that place, and the visitor is left with the
\* offset of the last one.
C28_CountIsDelivered ==
    (iter.buf = <<>> /\ ~iter.ended) =>
        \A r \in {FatDirNode_read_dir(iter.dir, iter.offset,
                                      [buf |-> <<>>, offset |-> iter.offset])} :
            /\ r.res = "Ok" => r.count = Len(r.v.buf)
            /\ r.v.offset = iter.offset + Len(r.v.buf)
            /\ \A k \in 1..Len(r.v.buf) : r.v.buf[k] = iter.offset + k

-----------------------------------------------------------------------------
(* The order in which the syscalls take the mutexes *)

\* the mutex thread t is about to take
Wanted(t) == Mutex(Head(threads[t].prog).m, Head(threads[t].prog).f)

\* thread t has a step to make and does not wait for a mutex
CanStep(t) ==
    /\ threads[t].prog # <<>>
    /\ AtStep(t, "acq") => owner[Wanted(t)] = 0

\* C30: no thread takes FS_CONTEXT or the mutex of the FD table while it
\* holds the mutex of a file or of the filesystem, and none takes a mutex
\* it holds already; a thread that has returned holds no mutex, and while
\* some thread is in a syscall some thread can make a step: no state is a
\* deadlock.
C30_LockOrderAcyclic ==
    /\ \A t \in Threads : AtStep(t, "acq") =>
        /\ owner[Wanted(t)] # t
        /\ Wanted(t).m \in {"FS_CONTEXT", "FD_TABLE"} =>
            \A l \in Mutexes : l.m \in {"File", "Filesystem"} => owner[l] # t
    /\ \A t \in Threads : threads[t].prog = <<>> => \A l \in Mutexes : owner[l] # t
    /\ (\E t \in Threads : threads[t].prog # <<>>) => \E t \in Threads : CanStep(t)

\* thread 1, in sys_openat with a dirfd, holds FS_CONTEXT and waits for the
\* FD table that thread 2 holds, while thread 2 can go on
C30_Witness ==
    /\ AtStep(1, "acq")
    /\ Wanted(1) = FD_TABLE
    /\ owner[FS_CONTEXT] = 1
    /\ owner[FD_TABLE] = 2
    /\ CanStep(2)

-----------------------------------------------------------------------------
(* The owners of a region of shared pages.  Owner 1 has made the region    *)
(* with new_shared(page_num, None); another owner is made from the Arc of  *)
(* an owner (new_shared with a source).  An owner maps and unmaps the      *)
(* region in its page table and drops its Backend.  unmap_shared reads the *)
(* strong count first and walks the pages afterwards, and other owners run *)
(* in between.                                                             *)

\* a page table with a huge page at page `huge`, 0 for none
PageTableWith(huge) == [i \in Pages |-> IF i = huge THEN "huge" ELSE "none"]

InitShared ==
    /\ \E h \in [Owners -> 0..MaxPages] :
            shared = [NoShared EXCEPT !.owners = {1},
                                      !.pt = [o \in Owners |-> PageTableWith(h[o])]]
    /\ sh_last = NoSharedCall
    /\ nodes = EmptyTree
    /\ current_dir = RootEntry
    /\ FsIdle /\ ReadDirIdle /\ ShimIdle /\ CtxIdle /\ ErrIdle /\ LocksIdle
    /\ InodesIdle /\ MountsIdle

\* owner o is not inside a call
AtRest(o) == o \in shared.owners /\ shared.run[o] = "idle"

\* Backend::new_shared(page_num, Some(source)): owner n is made from the
\* pages of owner o
NewShared(o, n) ==
    /\ AtRest(o)
    /\ n \notin shared.owners
    /\ shared' = [shared EXCEPT !.owners = @ \cup {n}, !.called = @ \ {n}]
    /\ sh_last' = SharedCall("new_shared", n, TRUE)
    /\ UNCHANGED outside_shared

MapShared(o) ==
    /\ AtRest(o)
    /\ \E r \in {map_shared(shared.pt[o], 1)} :
        /\ shared' = [shared EXCEPT !.pt[o] = r.pt, !.called = @ \ {o}]
        /\ sh_last' = SharedCall("map_shared", o, r.ret)
    /\ UNCHANGED outside_shared

\* unmap_shared reads Arc::strong_count
UnmapSharedCount(o) ==
    /\ AtRest(o)
    /\ shared' = [shared EXCEPT !.run[o] =
            IF Cardinality(shared.owners) = 1 THEN "dealloc" ELSE "keep"]
    /\ sh_last' = SharedCall("strong_count", o, Cardinality(shared.owners) = 1)
    /\ UNCHANGED outside_shared

\* the loop of unmap_shared and its return
UnmapSharedLoop(o) ==
    /\ o \in shared.owners
    /\ shared.run[o] # "idle"
    /\ \E r \in {unmap_shared(shared.pt[o], shared.freed, shared.run[o] = "dealloc", 1)} :
        /\ \A i \in Pages : r.freed[i] <= MaxFrees
        /\ shared' = [shared EXCEPT !.pt[o] = r.pt, !.freed = r.freed, !.run[o] = "idle",
                                    !.called = IF r.ret THEN @ \cup {o} ELSE @]
        /\ sh_last' = SharedCall("unmap_shared", o, r.ret)
    /\ UNCHANGED outside_shared

\* the Backend of owner o is dropped, and with it its clone of the Arc,
\* when its area has been unmapped
DropShared(o) ==
    /\ AtRest(o)
    /\ o \in shared.called
    /\ shared' = [shared EXCEPT !.owners = @ \ {o}]
    /\ sh_last' = SharedCall("drop", o, TRUE)
    /\ UNCHANGED outside_shared

NextShared ==
    \/ \E o \in Owners, n \in Owners : NewShared(o, n)
    \/ \E o \in Owners : MapShared(o)
    \/ \E o \in Owners : UnmapSharedCount(o)
    \/ \E o \in Owners : UnmapSharedLoop(o)
    \/ \E o \in Owners : DropShared(o)

SpecShared == InitShared /\ [][NextShared]_vars

\* C25: when every owner of the region has called unmap_shared and has
\* dropped its pages, every frame of the region has been deallocated, also
\* the frames the last owner had not mapped and also when the calls of two
\* owners overlap; an unmap_shared that meets a huge page returns false.
C25_LastOwnerFrees ==
    /\ shared.owners = {} => \A i \in Pages : shared.freed[i] >= 1
    /\ (sh_last.op = "unmap_shared" /\ sh_last.ret)
            => \A i \in Pages : shared.pt[sh_last.o][i] # "huge"

\* C29: a frame is deallocated only by the one owner that is left, no
\* frame is deallocated twice, and an unmap_shared that returns false has
\* removed no mapping and deallocated no frame.
C29_NoEarlyOrDoubleFree ==
    [][/\ shared'.freed # shared.freed => Cardinality(shared.owners) = 1
       /\ \A i \in Pages : shared'.freed[i] <= 1
       /\ (sh_last'.op = "unmap_shared" /\ ~sh_last'.ret)
            => (shared'.pt = shared.pt /\ shared'.freed = shared.freed)]_vars

-----------------------------------------------------------------------------
(* The nodes of one FAT mount and their inodes.  A node that comes into    *)
(* being is given an inode by alloc_inode and gives it back when it goes;  *)
(* metadata() reports an inode for a node that is there.                   *)

InitInodes ==
    /\ inodes = FatFilesystem_new
    /\ reported = NoReport
    /\ nodes = EmptyTree
    /\ current_dir = RootEntry
    /\ FsIdle /\ ReadDirIdle /\ ShimIdle /\ CtxIdle /\ ErrIdle /\ LocksIdle
    /\ SharedIdle /\ MountsIdle

LiveNodes == {n \in 1..MaxInodes : inodes.ino[n] # 0}

\* a file or a directory comes into being
NodeMade(n, kind) ==
    /\ n \notin LiveNodes
    /\ \E r \in {alloc_inode(inodes.slab)} :
        inodes' = [inodes EXCEPT !.slab = r.s, !.ino[n] = r.ino, !.kind[n] = kind]
    /\ reported' = NoReport
    /\ UNCHANGED outside_inodes

\* a node other than the root goes
NodeGone(n) ==
    /\ n \in LiveNodes \ {1}
    /\ inodes' = [inodes EXCEPT !.slab = release_inode(inodes.slab, inodes.ino[n]),
                                !.ino[n] = 0, !.kind[n] = "none"]
    /\ reported' = NoReport
    /\ UNCHANGED outside_inodes

\* metadata() of a node: of FatDirNode for a directory, file_metadata for
\* a file
Metadata(n) ==
    /\ n \in LiveNodes
    /\ reported' = Report(n, IF inodes.kind[n] = "dir"
                             THEN FatDirNode_metadata_inode(n = 1)
                             ELSE file_metadata_inode)
    /\ UNCHANGED <<inodes, outside_inodes>>

NextInodes ==
    \/ \E n \in 1..MaxInodes, kind \in {"file", "dir"} : NodeMade(n, kind)
    \/ \E n \in 1..MaxInodes : NodeGone(n)
    \/ \E n \in 1..MaxInodes : Metadata(n)

SpecInodes == InitInodes /\ [][NextInodes]_vars

\* C24: the inodes of the nodes that are there are at least 1 and differ
\* from each other, the inode of the root is given to no other node, and
\* metadata() of a node reports the inode allocated for it, so that two
\* nodes that are there never report the same inode.
C24_InodesDistinct ==
    /\ \A n \in LiveNodes : inodes.ino[n] >= 1
    /\ \A n, m \in LiveNodes : n # m => inodes.ino[n] # inodes.ino[m]
    /\ 1 \in LiveNodes
    /\ reported # NoReport => reported.inode = inodes.ino[reported.node]

-----------------------------------------------------------------------------
(* Several mounts: files are made in their root directories, and entries   *)
(* of the root directory of a FAT mount are renamed into the root          *)
(* directory of a mount.                                                   *)

InitMounts ==
    /\ mounts = NoMounts
    /\ mv_last = NoMove
    /\ nodes = EmptyTree
    /\ current_dir = RootEntry
    /\ FsIdle /\ ReadDirIdle /\ ShimIdle /\ CtxIdle /\ ErrIdle /\ LocksIdle
    /\ SharedIdle /\ InodesIdle

\* a file is made in the root directory of mount m
MountCreate(m, name) ==
    /\ mounts[m][name] = "none"
    /\ mounts' = [mounts EXCEPT ![m][name] = "file"]
    /\ mv_last' = Move("create", "Ok", m, m)
    /\ UNCHANGED outside_mounts

\* rename(src_name, dst_dir, dst_name) on the root directory of FAT mount s
MountRename(s, src_name, d, dst_name) ==
    /\ MountKinds[s] = "fat"
    /\ \E codec_moves \in BOOLEAN :
        \E r \in {FatDirNode_rename_between(mounts, s, src_name, d, dst_name, codec_moves)} :
            /\ mounts' = r.ms
            /\ mv_last' = Move("rename", r.res, s, d)
    /\ UNCHANGED outside_mounts

NextMounts ==
    \/ \E m \in Mounts, name \in MountNames : MountCreate(m, name)
    \/ \E s \in Mounts, d \in Mounts, src_name \in MountNames, dst_name \in MountNames :
            MountRename(s, src_name, d, dst_name)

SpecMounts == InitMounts /\ [][NextMounts]_vars

\* C22: a rename whose dst_dir is a directory of another mount than the
\* source directory, a second FAT mount included, fails InvalidInput and
\* leaves the directories of both mounts as they were.
C22_CrossMountRefused ==
    [][(mv_last'.op = "rename" /\ mv_last'.src # mv_last'.dst)
            => (mv_last'.res = "InvalidInput" /\ mounts' = mounts)]_vars

====
